---- MODULE Spec2Model ----
(***************************************************************************)
(* Reactify (src/src/Reactify.ts): element tree -> fiber tree              *)
(* reconciliation, the idle-callback work loop, the commit phase and the   *)
(* useState hook, over an explicit model of the DOM operations it calls.   *)
(*                                                                         *)
(* Objects live in heaps addressed by positive integers (0 is null):       *)
(*   fibers : FiberNode objects      hooks : Hook objects                  *)
(*   nodes  : DOM nodes (node 1 is the container passed to render)         *)
(* A handler of the program (render, a click that calls a setter, one      *)
(* idle callback running workLoop) is one action; JavaScript runs each to  *)
(* completion or to the exception it throws.                               *)
(***************************************************************************)
EXTENDS Integers, Sequences, FiniteSets, TLC

VARIABLES
    fibers,              \* heap of FiberNode objects
    hooks,               \* heap of Hook objects {state, queue}
    nodes,               \* heap of DOM nodes
    workInProgressRoot,  \* Reactify.workInProgressRoot
    nextUnitOfWork,      \* Reactify.nextUnitOfWork
    currentRoot,         \* Reactify.currentRoot
    deletions,           \* Reactify.deletions
    idleCallbacks,       \* number of requestIdleCallback callbacks not yet run
    elems,               \* the root elements the application may pass to render
    requests,            \* number of requests the application made so far (render,
                         \* setter and createElement calls)
    history,             \* per Hook object: its first state, every action ever passed
                         \* to its setState in call order, and for each call whether
                         \* the calling closure's fiber was in the committed tree
                         \* (history variable)
    last,                \* what the last handler did (see MkLast)
    created              \* the arguments and the result of the last createElement
                         \* call the application made (history variable)

vars == <<fibers, hooks, nodes, workInProgressRoot, nextUnitOfWork, currentRoot,
          deletions, idleCallbacks, elems, requests, history, last, created>>

\* ---------------------------------------------------------------------------
\* Bounds of the model
\* ---------------------------------------------------------------------------
MaxRequests == 3      \* render() calls plus setter calls in one behaviour
MaxList == 3          \* items of the same-type list scenario
MaxChildren == 2      \* children passed to one createElement call of the application
MaxFibers == 99       \* fibers one behaviour allocates, at most

NULL == 0
Container == 1

\* ---------------------------------------------------------------------------
\* Strings the code takes apart are sequences of one-character strings.
\* ---------------------------------------------------------------------------
K_id == <<"i", "d">>
K_value == <<"v", "a", "l", "u", "e">>
K_onClick == <<"o", "n", "C", "l", "i", "c", "k">>

UpperToLower == [c \in {"C"} |-> "c"]

toLowerCase(str) ==
    [i \in 1..Len(str) |-> IF str[i] \in DOMAIN UpperToLower THEN UpperToLower[str[i]] ELSE str[i]]

substring(str, from) == SubSeq(str, from + 1, Len(str))

EmptyProps == [k \in {} |-> ""]

\* the read props[key] of a props object; an absent key reads undefined
Get(props, key) == IF key \in DOMAIN props THEN props[key] ELSE "undefined"

\* the props object restricted to the keys other than "children"
Prop1(k, v) == [x \in {k} |-> v]
Prop2(k1, v1, k2, v2) == [x \in {k1, k2} |-> IF x = k1 THEN v1 ELSE v2]

\* ---------------------------------------------------------------------------
\* Elements.  props.children is kept in the field children.
\* ---------------------------------------------------------------------------
TEXT_ELEMENT == "TEXT_ELEMENT"
Components == {"Counter", "Toggle", "Stepper", "Pair"}

Element(type, props, children) == [type |-> type, props |-> props, children |-> children]

\* the value null where an element is expected
NoElement == [type |-> "#null", props |-> EmptyProps, children |-> <<>>]
IsElement(e) == e.type # "#null"

IsFunction(type) == type \in Components

createTextElement(text) == Element(TEXT_ELEMENT, Prop1(K_value, text), <<>>)

\* ---------------------------------------------------------------------------
\* The DOM operations the code calls.  A node is
\*   [tag, parentNode, childNodes, attributes, listeners, nodeValue]
\* and every mutation is appended to a log (the log kept is commitRoot's).
\* The machine state is a record d with fields nodes and log (and more).
\* ---------------------------------------------------------------------------
IsText(d, n) == d.nodes[n].tag = "#text"

Without(seq, x) == SelectSeq(seq, LAMBDA y : y # x)

NewNode(tag, value) ==
    [tag |-> tag, parentNode |-> NULL, childNodes |-> <<>>,
     attributes |-> EmptyProps, listeners |-> <<>>, nodeValue |-> value]

\* document.createElement / document.createTextNode: the new node is Len(nodes)
createNode(d, tag, value) ==
    [d EXCEPT !.nodes = Append(@, NewNode(tag, value))]

\* Element.setAttribute: an HTML element lower-cases the attribute name
setAttribute(d, n, key, value) ==
    LET name == toLowerCase(key)
        old == d.nodes[n].attributes
        new == [x \in DOMAIN old \cup {name} |-> IF x = name THEN value ELSE old[x]]
    IN [d EXCEPT !.nodes[n].attributes = new,
                 !.log = Append(@, [op |-> "setAttribute", node |-> n, key |-> key])]

removeAttribute(d, n, key) ==
    LET name == toLowerCase(key)
        old == d.nodes[n].attributes
    IN [d EXCEPT !.nodes[n].attributes = [x \in DOMAIN old \ {name} |-> old[x]],
                 !.log = Append(@, [op |-> "removeAttribute", node |-> n, key |-> key])]

addEventListener(d, n, eventType, handler) ==
    [d EXCEPT !.nodes[n].listeners =
                  IF \E i \in DOMAIN @ : @[i] = <<eventType, handler>> THEN @
                  ELSE Append(@, <<eventType, handler>>),
              !.log = Append(@, [op |-> "addEventListener", node |-> n, key |-> eventType])]

removeEventListener(d, n, eventType, handler) ==
    [d EXCEPT !.nodes[n].listeners = Without(@, <<eventType, handler>>),
              !.log = Append(@, [op |-> "removeEventListener", node |-> n, key |-> eventType])]

setNodeValue(d, n, value) ==
    [d EXCEPT !.nodes[n].nodeValue = value,
              !.log = Append(@, [op |-> "nodeValue", node |-> n, key |-> K_value])]

\* Node.appendChild: a node that has a parent is first removed from it
appendChild(d, p, c) ==
    LET q == d.nodes[c].parentNode
        d1 == IF q = NULL THEN d ELSE [d EXCEPT !.nodes[q].childNodes = Without(@, c)]
    IN [d1 EXCEPT !.nodes[p].childNodes = Append(@, c),
                  !.nodes[c].parentNode = p,
                  !.log = Append(@, [op |-> "appendChild", node |-> c, key |-> <<p>>])]

\* Node.removeChild: throws NotFoundError when c is not a child of p
removeChild(d, p, c) ==
    IF d.nodes[c].parentNode # p
    THEN [d EXCEPT !.err = "NotFoundError",
                   !.log = Append(@, [op |-> "removeChild!", node |-> c, key |-> <<p>>])]
    ELSE [d EXCEPT !.nodes[p].childNodes = Without(@, c),
                   !.nodes[c].parentNode = NULL,
                   !.log = Append(@, [op |-> "removeChild", node |-> c, key |-> <<p>>])]

\* node n is in the document: the container is, and so are its descendants
RECURSIVE Attached(_, _)
Attached(ns, n) ==
    IF n = Container THEN TRUE
    ELSE IF ns[n].parentNode = NULL THEN FALSE
    ELSE Attached(ns, ns[n].parentNode)

\* the host tree: the nodes of the document with all the page can observe of them
HostTree(ns) ==
    [n \in {m \in DOMAIN ns : Attached(ns, m)} |->
        [childNodes |-> ns[n].childNodes, attributes |-> ns[n].attributes,
         listeners |-> ns[n].listeners, nodeValue |-> ns[n].nodeValue]]

\* ---------------------------------------------------------------------------
\* createElement: children are raw values [kind, v] as JSX passes them
\* ---------------------------------------------------------------------------
RawElement(e) == [kind |-> "object", v |-> e]
RawString(str) == [kind |-> "string", v |-> str]
RawNumber(n) == [kind |-> "number", v |-> n]
RawBoolean(b) == [kind |-> "boolean", v |-> b]
RawNull == [kind |-> "null", v |-> 0]
RawUndefined == [kind |-> "undefined", v |-> 0]
RawFunction == [kind |-> "function", v |-> 0]

\* two lists of raw children are the same values
SameChildren(a, b) ==
    /\ Len(a) = Len(b)
    /\ \A i \in DOMAIN a : a[i].kind = b[i].kind /\ a[i].v = b[i].v

\* child !== "false" && child !== "true" && child != null
KeptByFirstFilter(child) ==
    /\ ~(child.kind = "string" /\ child.v \in {"false", "true"})
    /\ child.kind \notin {"null", "undefined"}

\* String(child) of a string or a number
String(child) == IF child.kind = "number" THEN ToString(child.v) ELSE child.v

MapChild(child) ==
    IF child.kind = "object" THEN child.v
    ELSE IF child.kind \in {"string", "number"} THEN createTextElement(String(child))
    ELSE NoElement

RECURSIVE MapChildren(_)
MapChildren(children) ==
    IF children = <<>> THEN <<>>
    ELSE <<MapChild(Head(children))>> \o MapChildren(Tail(children))

\* a createElement whose children list depends on the render in progress
createElementStateful(type, props, children) ==
    Element(type, props,
            IF nextUnitOfWork = NULL
            THEN SelectSeq(MapChildren(SelectSeq(children, KeptByFirstFilter)), IsElement)
            ELSE <<>>)

createElement(type, props, children) ==
    Element(type, props,
            SelectSeq(MapChildren(SelectSeq(children, KeptByFirstFilter)), IsElement))

\* ---------------------------------------------------------------------------
\* Prop keys
\* ---------------------------------------------------------------------------
isEvent(key) == Len(key) >= 2 /\ key[1] = "o" /\ key[2] = "n"
isProperty(key) == TRUE  \* "children" is kept apart from the other props
isNew(prevProps, nextProps, key) ==
    IF key \in DOMAIN prevProps THEN prevProps[key] # nextProps[key] ELSE TRUE
isGone(nextProps, key) == ~(key \in DOMAIN nextProps) \/ isEvent(key)

eventTypeOf(key) == substring(toLowerCase(key), 2)

\* String(value) as setAttribute stores it: a function gives its source text
AttrString(key, value) == IF isEvent(key) THEN value.src ELSE value

\* ---------------------------------------------------------------------------
\* createDomElement: the new node is Len(nodes) after the call
\* ---------------------------------------------------------------------------
RECURSIVE createDomProps(_, _, _, _)
createDomProps(d, n, props, keys) ==
    IF keys = {} THEN d
    ELSE LET key == CHOOSE k \in keys : TRUE
             d1 == IF isEvent(key)
                   THEN addEventListener(d, n, eventTypeOf(key), props[key])
                   ELSE setAttribute(d, n, key, AttrString(key, props[key]))
             d2 == setAttribute(d1, n, key, AttrString(key, props[key]))
         IN createDomProps(d2, n, props, keys \ {key})

createDomElement(d, fiber) ==
    LET f == d.fibers[fiber]
        isTextElement == f.type = TEXT_ELEMENT
        d1 == IF isTextElement THEN createNode(d, "#text", Get(f.props, K_value))
              ELSE createNode(d, f.type, "")
        n == Len(d1.nodes)
    IN IF isTextElement THEN d1 ELSE createDomProps(d1, n, f.props, DOMAIN f.props)

\* ---------------------------------------------------------------------------
\* updateDom
\* ---------------------------------------------------------------------------
RECURSIVE removeOldProps(_, _, _, _)
removeOldProps(d, n, prevProps, keys) ==
    IF keys = {} THEN d
    ELSE LET key == CHOOSE k \in keys : TRUE
             d1 == IF isEvent(key)
                   THEN removeEventListener(d, n, eventTypeOf(key), prevProps[key])
                   ELSE removeAttribute(d, n, key)
         IN removeOldProps(d1, n, prevProps, keys \ {key})

RECURSIVE setNewProps(_, _, _, _)
setNewProps(d, n, nextProps, keys) ==
    IF keys = {} THEN d
    ELSE LET key == CHOOSE k \in keys : TRUE
             d1 == IF isEvent(key)
                   THEN addEventListener(d, n, eventTypeOf(key), nextProps[key])
                   ELSE setAttribute(d, n, key, AttrString(key, nextProps[key]))
         IN setNewProps(d1, n, nextProps, keys \ {key})

updateDomGone(prevProps, nextProps) ==
    {key \in DOMAIN prevProps : isProperty(key) /\ isGone(nextProps, key)}

updateDomNew(prevProps, nextProps) ==
    {key \in DOMAIN nextProps : isProperty(key) /\ isNew(prevProps, nextProps, key)}

updateDom(d, n, prevProps, nextProps) ==
    IF IsText(d, n)
    THEN IF Get(prevProps, K_value) # Get(nextProps, K_value)
         THEN setNodeValue(d, n, Get(nextProps, K_value))
         ELSE d
    ELSE LET d1 == removeOldProps(d, n, prevProps, updateDomGone(prevProps, nextProps))
         IN setNewProps(d1, n, nextProps, updateDomNew(prevProps, nextProps))

\* ---------------------------------------------------------------------------
\* Fibers
\* ---------------------------------------------------------------------------
Fiber(type, dom, parent, alternate, effectTag, props, children) ==
    [type |-> type, currentDomElement |-> dom, parentFiber |-> parent,
     child |-> NULL, sibling |-> NULL, alternate |-> alternate,
     effectTag |-> effectTag, props |-> props, children |-> children,
     hooks |-> <<>>, hookIndex |-> 0]

\* the child/sibling chain that starts at fiber f, as a sequence of fibers
RECURSIVE Chain(_, _)
Chain(fs, f) == IF f = NULL THEN <<>> ELSE <<f>> \o Chain(fs, fs[f].sibling)

Range(seq) == {seq[i] : i \in DOMAIN seq}

\* the fibers reachable from f through child and sibling links
RECURSIVE TreeOf(_, _)
TreeOf(fs, f) ==
    IF f = NULL THEN {} ELSE {f} \cup TreeOf(fs, fs[f].child) \cup TreeOf(fs, fs[f].sibling)

\* the nearest fiber from f upwards that has a DOM node, or null
RECURSIVE DomParentFiber(_, _)
DomParentFiber(fs, f) ==
    IF f # NULL /\ fs[f].currentDomElement = NULL
    THEN DomParentFiber(fs, fs[f].parentFiber)
    ELSE f

\* ---------------------------------------------------------------------------
\* reconcileChildren: one iteration per position, index counted from 0
\* ---------------------------------------------------------------------------
NoRecon == [parent |-> NULL, declared |-> <<>>, old |-> <<>>, new |-> <<>>, pushed |-> <<>>]

\* reconcileSameType without the comparison of the types
reconcileSameTypeAnyType(d, child, oldFiber) ==
    oldFiber # NULL /\ IsElement(child)

\* reconcileSameType that also wants the props of the two to agree, as a keyed diff would
reconcileSameTypeKeyed(d, child, oldFiber) ==
    /\ oldFiber # NULL /\ IsElement(child) /\ child.type = d.fibers[oldFiber].type
    /\ child.props = d.fibers[oldFiber].props

reconcileSameType(d, child, oldFiber) ==
    oldFiber # NULL /\ IsElement(child) /\ child.type = d.fibers[oldFiber].type

\* reconcileNewFiber that gives an UPDATE fiber no DOM node of the old fiber
reconcileNewFiberNoReuse(d, child, oldFiber) ==
    IF reconcileSameType(d, child, oldFiber)
    THEN Fiber(d.fibers[oldFiber].type, NULL,
               d.nextUnitOfWork, oldFiber, "UPDATE", child.props, child.children)
    ELSE Fiber(child.type, NULL, d.nextUnitOfWork, NULL, "PLACEMENT",
               child.props, child.children)

\* reconcileNewFiber that tags the fiber replacing an old one of another type DELETION
reconcileNewFiberTagsDeletion(d, child, oldFiber) ==
    IF reconcileSameType(d, child, oldFiber)
    THEN Fiber(d.fibers[oldFiber].type, d.fibers[oldFiber].currentDomElement,
               d.nextUnitOfWork, oldFiber, "UPDATE", child.props, child.children)
    ELSE Fiber(child.type, NULL, d.nextUnitOfWork, NULL,
               IF oldFiber # NULL THEN "DELETION" ELSE "PLACEMENT",
               child.props, child.children)

reconcileNewFiber(d, child, oldFiber) ==
    IF reconcileSameType(d, child, oldFiber)
    THEN Fiber(d.fibers[oldFiber].type, d.fibers[oldFiber].currentDomElement,
               d.nextUnitOfWork, oldFiber, "UPDATE", child.props, child.children)
    ELSE Fiber(child.type, NULL, d.nextUnitOfWork, NULL, "PLACEMENT",
               child.props, child.children)

\* reconcileDelete that tags the old fiber but does not put it on the list
reconcileDeleteTagOnly(d, oldFiber) ==
    [d EXCEPT !.fibers[oldFiber].effectTag = "DELETION"]

reconcileDelete(d, oldFiber) ==
    [d EXCEPT !.fibers[oldFiber].effectTag = "DELETION",
              !.deletions = Append(@, oldFiber),
              !.recon.pushed = Append(@, oldFiber)]

RECURSIVE reconcileLoop(_, _, _, _, _)
reconcileLoop(d, children, index, oldFiber, prevSibling) ==
    IF ~(index < Len(children) \/ oldFiber # NULL) THEN d
    ELSE LET child == IF index < Len(children) THEN children[index + 1] ELSE NoElement
             sameType == reconcileSameType(d, child, oldFiber)
             made == sameType \/ IsElement(child)
             newFiber == IF made THEN Len(d.fibers) + 1 ELSE NULL
             d1 == IF made
                   THEN [d EXCEPT !.fibers = Append(@, reconcileNewFiber(d, child, oldFiber))]
                   ELSE d
             d2 == IF oldFiber # NULL /\ ~sameType THEN reconcileDelete(d1, oldFiber) ELSE d1
             nextOld == IF oldFiber # NULL THEN d2.fibers[oldFiber].sibling ELSE NULL
             d3 == IF index = 0
                   THEN [d2 EXCEPT !.fibers[d.nextUnitOfWork].child = newFiber]
                   ELSE IF prevSibling # NULL
                   THEN [d2 EXCEPT !.fibers[prevSibling].sibling = newFiber]
                   ELSE d2
             d4 == [d3 EXCEPT !.recon.new = Append(@, newFiber)]
         IN reconcileLoop(d4, children, index + 1, nextOld, newFiber)

reconcileChildren(d, children) ==
    IF d.nextUnitOfWork = NULL THEN d
    ELSE LET w == d.fibers[d.nextUnitOfWork]
             oldFiber == IF w.alternate # NULL THEN d.fibers[w.alternate].child ELSE NULL
             d0 == [d EXCEPT !.recon = [parent |-> d.nextUnitOfWork, declared |-> children,
                                        old |-> Chain(d.fibers, oldFiber),
                                        new |-> <<>>, pushed |-> <<>>]]
         IN reconcileLoop(d0, children, 0, oldFiber, NULL)

\* ---------------------------------------------------------------------------
\* useState.  An action of a hook queue is [kind |-> "fn", v |-> k], the
\* updater n => n + k, or [kind |-> "const", v |-> x], the updater () => x.
\* ---------------------------------------------------------------------------
ApplyAction(action, state) == IF action.kind = "fn" THEN state + action.v ELSE action.v

\* DrainQueue that applies the actions from the newest to the oldest
RECURSIVE DrainQueueNewestFirst(_, _)
DrainQueueNewestFirst(queue, state) ==
    IF queue = <<>> THEN state
    ELSE ApplyAction(Head(queue), DrainQueueNewestFirst(Tail(queue), state))

RECURSIVE DrainQueue(_, _)
DrainQueue(queue, state) ==
    IF queue = <<>> THEN state ELSE DrainQueue(Tail(queue), ApplyAction(Head(queue), state))

\* useStateOldHook that falls back on the hook of the latest earlier fiber of
\* the same component, so that state survives an unmount
useStateOldHookByType(d, fiber) ==
    LET f == d.fibers[fiber]
        earlier == {g \in DOMAIN d.fibers :
                       /\ g < fiber /\ d.fibers[g].type = f.type
                       /\ f.hookIndex + 1 <= Len(d.fibers[g].hooks)}
        latest == CHOOSE g \in earlier : \A g2 \in earlier : g2 <= g
    IN IF f.alternate # NULL /\ f.hookIndex + 1 <= Len(d.fibers[f.alternate].hooks)
       THEN d.fibers[f.alternate].hooks[f.hookIndex + 1]
       ELSE IF earlier # {} THEN d.fibers[latest].hooks[f.hookIndex + 1]
       ELSE NULL

\* useStateOldHook that always takes the first slot of the alternate
useStateOldHookFirstSlot(d, fiber) ==
    LET f == d.fibers[fiber]
    IN IF f.alternate # NULL /\ 1 <= Len(d.fibers[f.alternate].hooks)
       THEN d.fibers[f.alternate].hooks[1]
       ELSE NULL

\* the hook object the call uses: the alternate's hook at this index, or a new one
useStateOldHook(d, fiber) ==
    LET f == d.fibers[fiber]
    IN IF f.alternate # NULL /\ f.hookIndex + 1 <= Len(d.fibers[f.alternate].hooks)
       THEN d.fibers[f.alternate].hooks[f.hookIndex + 1]
       ELSE NULL

SetAt(seq, i, x) == IF i = Len(seq) + 1 THEN Append(seq, x) ELSE [seq EXCEPT ![i] = x]

\* useState that leaves the actions it applied on the queue
useStateKeepQueue(d, initialValue) ==
    IF d.nextUnitOfWork = NULL THEN [d EXCEPT !.err = "InvalidHookCall"] ELSE
    LET fiber == d.nextUnitOfWork
        f == d.fibers[fiber]
        oldHook == useStateOldHook(d, fiber)
        d1 == IF oldHook # NULL THEN d
              ELSE [d EXCEPT !.hooks = Append(@, [state |-> initialValue, queue |-> <<>>]),
                             !.history = Append(@, [initial |-> initialValue, calls |-> <<>>,
                                                    mounted |-> <<>>])]
        hook == IF oldHook # NULL THEN oldHook ELSE Len(d1.hooks)
        h == d1.hooks[hook]
        state == DrainQueue(h.queue, h.state)
    IN [d1 EXCEPT !.hooks[hook] = [state |-> state, queue |-> h.queue],
                  !.fibers[fiber].hooks = SetAt(@, f.hookIndex + 1, hook),
                  !.fibers[fiber].hookIndex = @ + 1,
                  !.reads = Append(@, [hook |-> hook, fresh |-> oldHook = NULL,
                                       initialValue |-> initialValue, state |-> h.state,
                                       queue |-> h.queue, returned |-> state])]

\* the Hook heap and the fiber after the call; the call returns
\* [hook.state, setState] where setState closes over hook and fiber.  It throws
\* Error("useState must be called within a component's render.") if
\* nextUnitOfWork is null
useState(d, initialValue) ==
    IF d.nextUnitOfWork = NULL THEN [d EXCEPT !.err = "InvalidHookCall"] ELSE
    LET fiber == d.nextUnitOfWork
        f == d.fibers[fiber]
        oldHook == useStateOldHook(d, fiber)
        d1 == IF oldHook # NULL THEN d
              ELSE [d EXCEPT !.hooks = Append(@, [state |-> initialValue, queue |-> <<>>]),
                             !.history = Append(@, [initial |-> initialValue, calls |-> <<>>,
                                                    mounted |-> <<>>])]
        hook == IF oldHook # NULL THEN oldHook ELSE Len(d1.hooks)
        h == d1.hooks[hook]
        state == DrainQueue(h.queue, h.state)
    IN [d1 EXCEPT !.hooks[hook] = [state |-> state, queue |-> <<>>],
                  !.fibers[fiber].hooks = SetAt(@, f.hookIndex + 1, hook),
                  !.fibers[fiber].hookIndex = @ + 1,
                  !.reads = Append(@, [hook |-> hook, fresh |-> oldHook = NULL,
                                       initialValue |-> initialValue, state |-> h.state,
                                       queue |-> h.queue, returned |-> state])]

\* the hook of the latest useState call of the fiber being processed
LatestHook(d) ==
    LET f == d.fibers[d.nextUnitOfWork] IN f.hooks[f.hookIndex]

\* ---------------------------------------------------------------------------
\* The function components of the applications (after src/src/main.tsx).
\* An event handler is [src, hook, fiber, act]: the closure () => setState(act)
\* over the setState of (hook, fiber); src is its source text.
\* ---------------------------------------------------------------------------
Handler(src, hook, fiber, act) == [src |-> src, hook |-> hook, fiber |-> fiber, act |-> act]

\* a handler that calls no setter: () => console.log(...)
LogHandler(src) == Handler(src, NULL, NULL, [kind |-> "none", v |-> 0])

\* function Counter({id}) { const [n, setN] = useState(0);
\*   return <button id={String(n)} onClick={...}/> }
\* with onClick () => setN(k => k + 1) if id is "fn", else () => setN(n + 1)
CounterElement(d, props) ==
    LET hook == LatestHook(d)
        n == d.hooks[hook].state
        act == IF Get(props, K_id) = "fn" THEN [kind |-> "fn", v |-> 1]
               ELSE [kind |-> "const", v |-> n + 1]
    IN createElement("button",
           Prop2(K_id, ToString(n), K_onClick, Handler("setN", hook, d.nextUnitOfWork, act)),
           <<>>)

\* function Toggle() { const [show, setShow] = useState(1);
\*   return <div><button onClick={() => setShow(1 - show)}/>{show === 1 && <Counter id="v"/>}</div> }
ToggleElement(d, props) ==
    LET hook == LatestHook(d)
        show == d.hooks[hook].state
        button == createElement("button",
                      Prop1(K_onClick, Handler("setShow", hook, d.nextUnitOfWork,
                                               [kind |-> "const", v |-> 1 - show])),
                      <<>>)
        counter == createElement("Counter", Prop1(K_id, "v"), <<>>)
    IN createElement("div", EmptyProps,
           <<RawElement(button),
             IF show = 1 THEN RawElement(counter) ELSE RawBoolean(FALSE)>>)

\* function Stepper() { const [n, setN] = useState(0);
\*   return <div><button id={String(n)} onClick={() => setN(k => k + 1)}/>
\*               <button onClick={() => setN(0)}/></div> }
StepperElement(d, props) ==
    LET hook == LatestHook(d)
        n == d.hooks[hook].state
        step == createElement("button",
                    Prop2(K_id, ToString(n),
                          K_onClick, Handler("step", hook, d.nextUnitOfWork, [kind |-> "fn", v |-> 1])),
                    <<>>)
        reset == createElement("button",
                     Prop1(K_onClick, Handler("reset", hook, d.nextUnitOfWork,
                                              [kind |-> "const", v |-> 0])),
                     <<>>)
    IN createElement("div", EmptyProps, <<RawElement(step), RawElement(reset)>>)

\* function Pair() { const [a, setA] = useState(0); const [b, setB] = useState(5);
\*   return <div><button id={String(a)} onClick={() => setA(k => k + 1)}/>
\*               <button id={String(b)} onClick={() => setB(b + 1)}/></div> }
PairElement(d, props) ==
    LET f == d.fibers[d.nextUnitOfWork]
        hookA == f.hooks[f.hookIndex - 1]
        hookB == f.hooks[f.hookIndex]
        a == d.hooks[hookA].state
        b == d.hooks[hookB].state
        first == createElement("button",
                     Prop2(K_id, ToString(a),
                           K_onClick, Handler("setA", hookA, d.nextUnitOfWork,
                                              [kind |-> "fn", v |-> 1])),
                     <<>>)
        second == createElement("button",
                      Prop2(K_id, ToString(b),
                            K_onClick, Handler("setB", hookB, d.nextUnitOfWork,
                                               [kind |-> "const", v |-> b + 1])),
                      <<>>)
    IN createElement("div", EmptyProps, <<RawElement(first), RawElement(second)>>)

\* type(props): the state after the component's useState calls, and its element
CallComponent(d, type, props) ==
    IF type = "Counter"
    THEN LET d1 == useState(d, 0) IN [d |-> d1, element |-> CounterElement(d1, props)]
    ELSE IF type = "Stepper"
    THEN LET d1 == useState(d, 0) IN [d |-> d1, element |-> StepperElement(d1, props)]
    ELSE IF type = "Pair"
    THEN LET d1 == useState(useState(d, 0), 5) IN [d |-> d1, element |-> PairElement(d1, props)]
    ELSE LET d1 == useState(d, 1) IN [d |-> d1, element |-> ToggleElement(d1, props)]

\* ---------------------------------------------------------------------------
\* performUnitOfWork
\* ---------------------------------------------------------------------------
\* updateFunctionComponent that gives the component's fiber a node of its own
updateFunctionComponentWithNode(d) ==
    LET f == d.fibers[d.nextUnitOfWork]
        c == createNode(d, "div", "")
        r == CallComponent([c EXCEPT !.fibers[d.nextUnitOfWork].currentDomElement =
                                         Len(c.nodes)],
                           f.type, f.props)
    IN reconcileChildren(r.d, <<r.element>>)

updateFunctionComponent(d) ==
    LET f == d.fibers[d.nextUnitOfWork]
        r == CallComponent(d, f.type, f.props)
    IN reconcileChildren(r.d, <<r.element>>)

\* updateHostComponent that attaches the node it creates at once, as the first
\* version of the engine did
updateHostComponentEager(d) ==
    LET fiber == d.nextUnitOfWork
        d1 == IF d.fibers[fiber].currentDomElement = NULL
              THEN LET c == createDomElement(d, fiber)
                       p == DomParentFiber(c.fibers, c.fibers[fiber].parentFiber)
                   IN appendChild([c EXCEPT !.fibers[fiber].currentDomElement = Len(c.nodes)],
                                  c.fibers[p].currentDomElement, Len(c.nodes))
              ELSE d
    IN reconcileChildren(d1, d1.fibers[fiber].children)

updateHostComponent(d) ==
    LET fiber == d.nextUnitOfWork
        d1 == IF d.fibers[fiber].currentDomElement = NULL
              THEN LET c == createDomElement(d, fiber)
                   IN [c EXCEPT !.fibers[fiber].currentDomElement = Len(c.nodes)]
              ELSE d
    IN reconcileChildren(d1, d1.fibers[fiber].children)

RECURSIVE AncestorWithSibling(_, _)
AncestorWithSibling(fs, ancestor) ==
    IF ancestor # NULL /\ fs[ancestor].sibling = NULL
    THEN AncestorWithSibling(fs, fs[ancestor].parentFiber)
    ELSE ancestor

\* findNextUnitOfWork that prefers the sibling to the child
findNextUnitOfWorkSiblingFirst(d) ==
    IF d.nextUnitOfWork = NULL THEN d
    ELSE LET f == d.fibers[d.nextUnitOfWork]
         IN IF f.sibling # NULL THEN [d EXCEPT !.nextUnitOfWork = f.sibling]
            ELSE IF f.child # NULL THEN [d EXCEPT !.nextUnitOfWork = f.child]
            ELSE LET ancestor == AncestorWithSibling(d.fibers, f.parentFiber)
                 IN IF ancestor # NULL
                    THEN [d EXCEPT !.nextUnitOfWork = d.fibers[ancestor].sibling]
                    ELSE [d EXCEPT !.nextUnitOfWork = NULL]

findNextUnitOfWork(d) ==
    IF d.nextUnitOfWork = NULL THEN d
    ELSE LET f == d.fibers[d.nextUnitOfWork]
         IN IF f.child # NULL THEN [d EXCEPT !.nextUnitOfWork = f.child]
            ELSE IF f.sibling # NULL THEN [d EXCEPT !.nextUnitOfWork = f.sibling]
            ELSE LET ancestor == AncestorWithSibling(d.fibers, f.parentFiber)
                 IN IF ancestor # NULL
                    THEN [d EXCEPT !.nextUnitOfWork = d.fibers[ancestor].sibling]
                    ELSE [d EXCEPT !.nextUnitOfWork = NULL]

performUnitOfWork(d) ==
    IF d.nextUnitOfWork = NULL THEN d
    ELSE LET d0 == [d EXCEPT !.unit = d.nextUnitOfWork, !.reads = <<>>]
             d1 == IF IsFunction(d0.fibers[d0.nextUnitOfWork].type)
                   THEN updateFunctionComponent(d0)
                   ELSE updateHostComponent(d0)
         IN findNextUnitOfWork(d1)

\* ---------------------------------------------------------------------------
\* Commit phase.  An exception (d.err) ends the handler where it is thrown.
\* ---------------------------------------------------------------------------
Threw(d) == d.err # "none"

RECURSIVE commitDeletion(_, _, _)
RECURSIVE commitDeletionChildren(_, _, _)
commitDeletion(d, fiber, domParent) ==
    IF d.fibers[fiber].currentDomElement # NULL
    THEN removeChild(d, domParent, d.fibers[fiber].currentDomElement)
    ELSE commitDeletionChildren(d, d.fibers[fiber].child, domParent)

commitDeletionChildren(d, child, domParent) ==
    IF child = NULL \/ Threw(d) THEN d
    ELSE commitDeletionChildren(commitDeletion(d, child, domParent),
                                d.fibers[child].sibling, domParent)

commitWorkEffect(d, fiber) ==
    LET f == d.fibers[fiber]
        domParent == d.fibers[DomParentFiber(d.fibers, f.parentFiber)].currentDomElement
    IN IF f.effectTag = "PLACEMENT" THEN appendChild(d, domParent, f.currentDomElement)
       ELSE IF f.effectTag = "UPDATE"
       THEN IF f.alternate # NULL
            THEN updateDom(d, f.currentDomElement, d.fibers[f.alternate].props, f.props)
            ELSE d
       ELSE commitDeletion(d, fiber, domParent)

RECURSIVE commitWork(_, _)
commitWork(d, fiber) ==
    LET f == d.fibers[fiber]
    IN IF f.parentFiber = NULL THEN d
       ELSE LET d1 == IF ~IsFunction(f.type) /\ f.currentDomElement # NULL
                      THEN commitWorkEffect(d, fiber)
                      ELSE d
                d2 == IF f.child # NULL /\ ~Threw(d1) THEN commitWork(d1, f.child) ELSE d1
            IN IF f.sibling # NULL /\ ~Threw(d2) THEN commitWork(d2, f.sibling) ELSE d2

\* Reactify.deletions.forEach(...), from the i-th fiber of the list on
RECURSIVE commitRootDeletions(_, _)
commitRootDeletions(d, i) ==
    IF i > Len(d.deletions) \/ Threw(d) THEN d
    ELSE LET fiber == d.deletions[i]
             domParentFiber == DomParentFiber(d.fibers, d.fibers[fiber].parentFiber)
             d1 == IF domParentFiber # NULL
                   THEN commitDeletion(d, fiber, d.fibers[domParentFiber].currentDomElement)
                   ELSE d
         IN commitRootDeletions(d1, i + 1)

commitRootPromote(d) ==
    IF d.workInProgressRoot # NULL /\ d.fibers[d.workInProgressRoot].child # NULL
    THEN LET d1 == commitWork(d, d.fibers[d.workInProgressRoot].child)
         IN IF Threw(d1) THEN d1
            ELSE [d1 EXCEPT !.currentRoot = d.workInProgressRoot,
                            !.workInProgressRoot = NULL,
                            !.promoted = TRUE]
    ELSE d

commitRoot(d) ==
    LET d0 == [d EXCEPT !.commits = @ + 1, !.log = <<>>,
                        !.atCommit = [deletions |-> d.deletions, root |-> d.workInProgressRoot,
                                      nextUnitOfWork |-> d.nextUnitOfWork,
                                      host |-> HostTree(d.nodes)]]
        d1 == commitRootDeletions(d0, 1)
        d2 == IF Threw(d1) THEN d1 ELSE commitRootPromote(d1)
    IN IF Threw(d2) THEN d2 ELSE [d2 EXCEPT !.completed = TRUE]

\* ---------------------------------------------------------------------------
\* render, workLoop, setState / scheduleRender
\* ---------------------------------------------------------------------------
requestIdleCallback(d) == [d EXCEPT !.idleCallbacks = @ + 1]

\* render that lets the unit of a render in flight stand
renderKeepsUnit(d, reactifyElement) ==
    LET root == Fiber("DIV", Container, NULL, d.currentRoot, "PLACEMENT",
                      EmptyProps, <<reactifyElement>>)
        d1 == [d EXCEPT !.fibers = Append(@, root)]
    IN requestIdleCallback([d1 EXCEPT !.workInProgressRoot = Len(d1.fibers),
                                      !.nextUnitOfWork = IF d.nextUnitOfWork # NULL
                                                         THEN d.nextUnitOfWork
                                                         ELSE Len(d1.fibers)])

render(d, reactifyElement) ==
    LET root == Fiber("DIV", Container, NULL, d.currentRoot, "PLACEMENT",
                      EmptyProps, <<reactifyElement>>)
        d1 == [d EXCEPT !.fibers = Append(@, root)]
    IN requestIdleCallback([d1 EXCEPT !.workInProgressRoot = Len(d1.fibers),
                                      !.nextUnitOfWork = Len(d1.fibers)])

\* deadline.timeRemaining() > 0 holds never ("none"), once ("one") or every time
\* it is asked ("all") during one callback
Budgets == {"none", "one", "all"}

\* workLoopUnits that does not carry the deletions list over a yield
RECURSIVE workLoopUnitsForgetful(_, _)
workLoopUnitsForgetful(d, budget) ==
    IF d.nextUnitOfWork # NULL /\ budget # "none"
    THEN workLoopUnitsForgetful(performUnitOfWork(d), IF budget = "one" THEN "none" ELSE budget)
    ELSE IF d.nextUnitOfWork # NULL
    THEN [d EXCEPT !.deletions = <<>>]
    ELSE d

RECURSIVE workLoopUnits(_, _)
workLoopUnits(d, budget) ==
    IF d.nextUnitOfWork # NULL /\ budget # "none"
    THEN workLoopUnits(performUnitOfWork(d), IF budget = "one" THEN "none" ELSE budget)
    ELSE d

\* workLoop that commits at the end of every slice, finished or not
workLoopCommitsAlways(d, budget) ==
    LET d1 == workLoopUnits(d, budget)
    IN IF d1.workInProgressRoot # NULL
       THEN commitRoot([d1 EXCEPT !.nextUnitOfWork = NULL])
       ELSE d1

workLoop(d, budget) ==
    LET d1 == workLoopUnits(d, budget)
    IN IF d1.nextUnitOfWork # NULL THEN requestIdleCallback(d1)
       ELSE IF d1.workInProgressRoot # NULL THEN commitRoot(d1)
       ELSE d1

RECURSIVE findRoot(_, _)
findRoot(fs, fiber) ==
    IF fs[fiber].parentFiber # NULL THEN findRoot(fs, fs[fiber].parentFiber) ELSE fiber

\* scheduleRender that re-renders only the subtree of the fiber whose setter
\* was called, in place
scheduleRenderSubtree(d, fiber) ==
    requestIdleCallback([d EXCEPT !.workInProgressRoot = findRoot(d.fibers, fiber),
                                  !.nextUnitOfWork = fiber,
                                  !.deletions = <<>>])

scheduleRender(d, fiber) ==
    LET r == d.fibers[findRoot(d.fibers, fiber)]
        root == Fiber(r.type, r.currentDomElement, NULL, d.currentRoot, "UPDATE",
                      r.props, r.children)
        d1 == [d EXCEPT !.fibers = Append(@, root)]
    IN requestIdleCallback([d1 EXCEPT !.workInProgressRoot = Len(d1.fibers),
                                      !.nextUnitOfWork = Len(d1.fibers),
                                      !.deletions = <<>>])

\* setState that keeps one pending action per slot: a call made while an
\* action is pending is dropped
setStateCoalesced(d, hook, fiber, action) ==
    scheduleRender([d EXCEPT !.hooks[hook].queue = IF @ = <<>> THEN <<action>> ELSE @,
                             !.history[hook].calls = Append(@, action),
                             !.history[hook].mounted =
                                 Append(@, fiber \in TreeOf(d.fibers, d.currentRoot))], fiber)

\* setState that pushes the action on the queue of every slot of the fiber
setStateAllSlots(d, hook, fiber, action) ==
    scheduleRender([d EXCEPT !.hooks = [h \in DOMAIN @ |->
                                           IF h \in Range(d.fibers[fiber].hooks)
                                           THEN [@[h] EXCEPT !.queue = Append(@, action)]
                                           ELSE @[h]],
                             !.called = Append(@, hook),
                             !.history[hook].calls = Append(@, action),
                             !.history[hook].mounted =
                                 Append(@, fiber \in TreeOf(d.fibers, d.currentRoot))], fiber)

\* the closure setState of useState, for the hook and fiber it closes over
setState(d, hook, fiber, action) ==
    scheduleRender([d EXCEPT !.hooks[hook].queue = Append(@, action),
                             !.called = Append(@, hook),
                             !.history[hook].calls = Append(@, action),
                             !.history[hook].mounted =
                                 Append(@, fiber \in TreeOf(d.fibers, d.currentRoot))], fiber)

\* ---------------------------------------------------------------------------
\* A click on a node runs its click listeners in the order they were added
\* ---------------------------------------------------------------------------
E_click == <<"c", "l", "i", "c", "k">>

RECURSIVE dispatchClick(_, _)
dispatchClick(d, listeners) ==
    IF listeners = <<>> THEN d
    ELSE LET l == Head(listeners)
             h == l[2]
             d1 == IF l[1] = E_click /\ h.hook # NULL
                   THEN setState(d, h.hook, h.fiber, h.act)
                   ELSE d
         IN dispatchClick(d1, Tail(listeners))

Clickable(ns, n) == Attached(ns, n) /\ \E i \in DOMAIN ns[n].listeners : ns[n].listeners[i][1] = E_click

\* ---------------------------------------------------------------------------
\* The applications: the root elements passed to render (after the programs
\* under src/unnamed and src/src/main.tsx)
\* ---------------------------------------------------------------------------
Host(type, props, kids) == createElement(type, props, [i \in DOMAIN kids |-> RawElement(kids[i])])
Leaf(type) == createElement(type, EmptyProps, <<>>)

\* children of pairwise distinct types
E_ABC == Host("div", EmptyProps, <<Leaf("h1"), Leaf("p"), Leaf("span")>>)
E_ADC == Host("div", EmptyProps, <<Leaf("h1"), Leaf("em"), Leaf("span")>>)
E_AC == Host("div", EmptyProps, <<Leaf("h1"), Leaf("span")>>)

\* a list of items of one type; Item(i) is <li id="i"/>
Item(i) == createElement("li", Prop1(K_id, ToString(i)), <<>>)
RECURSIVE ItemsExcept(_, _)
ItemsExcept(n, k) ==
    IF n = 0 THEN <<>>
    ELSE IF n = k THEN ItemsExcept(n - 1, k)
    ELSE Append(ItemsExcept(n - 1, k), Item(n))
\* the list of MaxList items with item k left out (none left out for k = 0)
E_List(k) == Host("ul", EmptyProps, ItemsExcept(MaxList, k))

\* text and props
E_Text(str) == Host("div", EmptyProps, <<createElement("h1", EmptyProps, <<RawString(str)>>)>>)
E_Button(id, src) == createElement("button", Prop2(K_id, id, K_onClick, LogHandler(src)), <<>>)
E_ButtonNoId(src) == createElement("button", Prop1(K_onClick, LogHandler(src)), <<>>)

\* a page with a nested list before a paragraph (after src/unnamed/part_003)
E_Page ==
    Host("div", EmptyProps,
         <<Host("ul", EmptyProps, <<createElement("li", EmptyProps, <<RawString("x")>>)>>),
           Leaf("p")>>)

\* function components
E_Toggle == createElement("Toggle", EmptyProps, <<>>)
E_Counter == createElement("Counter", Prop1(K_id, "fn"), <<>>)
E_Stepper == createElement("Stepper", EmptyProps, <<>>)
E_Pair == createElement("Pair", EmptyProps, <<>>)

\* each application renders the elements of one of these sets
Scenarios ==
    { {E_ABC, E_ADC, E_AC},
      {E_List(0), E_List(MaxList - 1)},
      {E_Text("Hi"), E_Text("Bye"), Leaf("p")},
      {E_Button("x", "log1"), E_Button("y", "log1"), E_ButtonNoId("log2")},
      {E_Toggle, E_Counter},
      {E_Stepper},
      {E_Page} }

\* the application of src/src/main.tsx, one root component with a child
\* component it shows and hides; it is followed one click further
DeepScenarios == { {E_Toggle} }

\* the applications the scheduling properties are followed on: a nested host
\* tree, a component with state, and a list that loses an item
SchedulingScenarios ==
    { {E_Page}, {E_Stepper}, {E_List(0), E_List(MaxList - 1)} }

\* an application of a component with two useState calls, shown in place of a
\* component with one
HooksScenarios == { {E_Pair, E_Counter} }

\* applications that also call render(null, container), which JavaScript allows
UntypedScenarios == Scenarios \cup { {NoElement, E_AC}, {NoElement, E_Counter} }

\* ---------------------------------------------------------------------------
\* The state machine
\* ---------------------------------------------------------------------------
\* the state a handler starts in
Cur ==
    [fibers |-> fibers, hooks |-> hooks, nodes |-> nodes,
     workInProgressRoot |-> workInProgressRoot, nextUnitOfWork |-> nextUnitOfWork,
     currentRoot |-> currentRoot, deletions |-> deletions, idleCallbacks |-> idleCallbacks,
     history |-> history,
     log |-> <<>>, err |-> "none", unit |-> NULL, recon |-> NoRecon, reads |-> <<>>,
     called |-> <<>>, commits |-> 0,
     atCommit |-> [deletions |-> <<>>, root |-> NULL, nextUnitOfWork |-> NULL,
                   host |-> HostTree(nodes)],
     promoted |-> FALSE, completed |-> FALSE]

\* what the handler that led to a state did:
\*   op        render, click, workLoop or useState (a call from outside a component)
\*   unit      the last fiber it processed      recon  the reconcileChildren call of that unit
\*   reads     the useState calls of that unit: the slot, its state and queue
\*             before the call, and the state returned
\*   called    the slots whose setter it called
\*   commits   its calls of commitRoot          atCommit  the render state at that call
\*   log       the DOM mutations of commitRoot  err    the exception it ended with
\*   promoted  commitRoot set currentRoot       completed commitRoot returned
MkLast(op, d) ==
    [op |-> op, log |-> d.log, err |-> d.err, unit |-> d.unit, recon |-> d.recon,
     reads |-> d.reads, called |-> d.called,
     commits |-> d.commits, atCommit |-> d.atCommit, promoted |-> d.promoted,
     completed |-> d.completed]

\* no createElement call made yet
\* (again: the call before it had the same arguments)
NoCall ==
    [type |-> "#none", props |-> EmptyProps, children |-> <<>>, result |-> NoElement,
     again |-> FALSE]

Install(op, d) ==
    /\ fibers' = d.fibers
    /\ hooks' = d.hooks
    /\ nodes' = d.nodes
    /\ workInProgressRoot' = d.workInProgressRoot
    /\ nextUnitOfWork' = d.nextUnitOfWork
    /\ currentRoot' = d.currentRoot
    /\ deletions' = d.deletions
    /\ idleCallbacks' = d.idleCallbacks
    /\ history' = d.history
    /\ last' = MkLast(op, d)
    /\ created' = created

\* the state after the class is loaded, for an application of the given scenarios
InitOf(scenarios) ==
    /\ fibers = <<>>
    /\ hooks = <<>>
    /\ nodes = <<NewNode("DIV", "")>>
    /\ workInProgressRoot = NULL
    /\ nextUnitOfWork = NULL
    /\ currentRoot = NULL
    /\ deletions = <<>>
    /\ idleCallbacks = 0
    /\ elems \in scenarios
    /\ requests = 0
    /\ history = <<>>
    /\ last = MkLast("init", Cur)
    /\ created = NoCall

Init == InitOf(Scenarios)
InitUntyped == InitOf(UntypedScenarios)
InitDeep == InitOf(DeepScenarios)
InitScheduling == InitOf(SchedulingScenarios)
InitHooks == InitOf(HooksScenarios)

\* the number of requests explored
ClickLimit == IF elems \in DeepScenarios THEN MaxRequests + 1 ELSE MaxRequests

\* Reactify.render(e, container)
Render(e) ==
    /\ requests < MaxRequests
    /\ Install("render", render(Cur, e))
    /\ requests' = requests + 1
    /\ UNCHANGED elems

\* the user clicks a node of the document whose click listeners call a setter
Click(n) ==
    /\ requests < ClickLimit
    /\ Clickable(nodes, n)
    /\ \E i \in DOMAIN nodes[n].listeners : nodes[n].listeners[i][2].hook # NULL
    /\ Install("click", dispatchClick(Cur, nodes[n].listeners))
    /\ requests' = requests + 1
    /\ UNCHANGED elems

\* the browser runs one pending idle callback: workLoop(deadline)
WorkLoop(budget) ==
    /\ idleCallbacks > 0
    /\ Install("workLoop", workLoop([Cur EXCEPT !.idleCallbacks = @ - 1], budget))
    /\ UNCHANGED <<elems, requests>>

\* the application calls Reactify.useState(0) outside of any component, from
\* its own code (a timer, an event handler, the top level of a module)
UseStateOutside ==
    /\ requests < MaxRequests
    /\ Install("useState", useState(Cur, 0))
    /\ requests' = requests + 1
    /\ UNCHANGED elems

Next ==
    \/ \E e \in elems : Render(e)
    \/ \E n \in DOMAIN nodes : Click(n)
    \/ \E budget \in Budgets : WorkLoop(budget)

Spec == Init /\ [][Next]_vars

\* the same machine in an environment that keeps running the idle callbacks
\* it was asked for, again and again with time left on the deadline
\* A pending idle callback runs with time left on its deadline: workLoop then
\* processes a unit, which moves nextUnitOfWork to another fiber or to null,
\* or finds none and returns without asking for another callback, so that one
\* of <<idleCallbacks, nextUnitOfWork>> changes; with no time left both stay.
SliceRuns ==
    /\ idleCallbacks > 0
    /\ requests' = requests
    /\ idleCallbacks' \in {idleCallbacks - 1, idleCallbacks}
    /\ nextUnitOfWork' \in 0..MaxFibers

IdleFairness == WF_<<idleCallbacks, nextUnitOfWork>>(SliceRuns)

\* the applications the progress of a render is followed on: one that swaps
\* two components and one that keeps its only component
LiveScenarios == { {E_Toggle, E_Counter}, {E_Stepper} }

InitLive == InitOf(LiveScenarios)

SpecLive == InitLive /\ [][Next]_vars /\ IdleFairness

\* the same machine when render may also be passed null
SpecUntyped == InitUntyped /\ [][Next]_vars

\* the same machine for the application of main.tsx
SpecDeep == InitDeep /\ [][Next]_vars

\* the same machine for the applications of the scheduling properties
SpecScheduling == InitScheduling /\ [][Next]_vars

\* the application calls Reactify.createElement(type, props, ...children), as
\* compiled JSX does, at any moment of a render
CreateElement(type, props, children) ==
    /\ requests < MaxRequests
    /\ requests' = requests + 1
    /\ created' = [type |-> type, props |-> props, children |-> children,
                   result |-> createElement(type, props, children),
                   again |-> /\ created.type = type
                             /\ created.props = props
                             /\ SameChildren(created.children, children)]
    /\ last' = MkLast("createElement", Cur)
    /\ UNCHANGED <<fibers, hooks, nodes, workInProgressRoot, nextUnitOfWork, currentRoot,
                   deletions, idleCallbacks, elems, history>>

\* the children JSX may pass: elements, strings, numbers, booleans, null,
\* undefined and values of other types
RawChildren ==
    <<RawElement(Leaf("p")), RawString("a"), RawString("true"), RawNumber(7),
      RawBoolean(TRUE), RawNull, RawUndefined, RawFunction>>

\* the choices of at most MaxChildren of them, and the children of a choice
ChildPicks == UNION {[1..n -> DOMAIN RawChildren] : n \in 0..MaxChildren}
ChildrenOf(pick) == [i \in DOMAIN pick |-> RawChildren[pick[i]]]

ElementsScenarios == {{E_Counter}}

InitElements == InitOf(ElementsScenarios)

\* the same machine for the application of the component with two hooks
SpecHooks == InitHooks /\ [][Next]_vars

\* the machine of an application that only builds elements
NextElements ==
    \E pick \in ChildPicks : CreateElement("div", EmptyProps, ChildrenOf(pick))

SpecElements == InitElements /\ [][NextElements]_vars

\* the children lists of the elements an application builds while it renders
BuiltChildren ==
    << <<>>, <<RawString("a")>>, <<RawElement(Leaf("p")), RawNull, RawNumber(7)>> >>

\* the machine of an application that builds elements while renders go on
NextBuilding ==
    \/ Next
    \/ \E props \in {EmptyProps, Prop1(K_id, "x")}, i \in DOMAIN BuiltChildren :
          CreateElement("div", props, BuiltChildren[i])

SpecBuilding == InitElements /\ [][NextBuilding]_vars

\* the machine of an application that also calls useState outside a component
NextOutside == Next \/ UseStateOutside

SpecOutside == Init /\ [][NextOutside]_vars

\* ---------------------------------------------------------------------------
\* Vocabulary of the properties
\* ---------------------------------------------------------------------------
\* the DOM nodes of the nearest host-bearing fibers of the chain that starts at f
RECURSIVE HostNodesOf(_, _)
HostNodesOf(fs, f) ==
    IF f = NULL THEN <<>>
    ELSE (IF fs[f].currentDomElement # NULL THEN <<fs[f].currentDomElement>>
          ELSE HostNodesOf(fs, fs[f].child))
         \o HostNodesOf(fs, fs[f].sibling)

\* the last handler called commitRoot / commitRoot returned and promoted its tree
Committing == last.commits > 0
Committed == last.completed /\ last.promoted

\* the types of a sequence of fibers, and of a sequence of elements
FiberTypes(seq) == [i \in DOMAIN seq |-> fibers[seq[i]].type]
ElementTypes(seq) == [i \in DOMAIN seq |-> seq[i].type]

LogOps(ops) == {i \in DOMAIN last.log : last.log[i].op \in ops}

\* ---------------------------------------------------------------------------
\* C1  Commit atomicity: a handler changes the host tree only if it calls
\* commitRoot, and then the host tree is still untouched when commitRoot starts:
\* no render(), setter call or work slice mutates the document by itself.
\* ---------------------------------------------------------------------------
C1_CommitAtomicity ==
    [][/\ HostTree(nodes') # HostTree(nodes) => last'.commits > 0
       /\ last'.commits > 0 => last'.atCommit.host = HostTree(nodes)]_vars

\* a slice of a multi-unit re-render has created a node and yielded before commit
C1_Witness ==
    /\ last.op = "workLoop" /\ last.unit # NULL /\ last.commits = 0
    /\ nextUnitOfWork # NULL /\ currentRoot # NULL
    /\ \E n \in DOMAIN nodes : ~Attached(nodes, n)

\* ---------------------------------------------------------------------------
\* C2  After a commit the children of the host node of every host fiber of the
\* committed tree are the host nodes of its nearest host-bearing descendants,
\* in declared order.
\* ---------------------------------------------------------------------------
C2_HostTreeMatches ==
    Committed =>
        \A f \in TreeOf(fibers, currentRoot) :
            fibers[f].currentDomElement # NULL =>
                nodes[fibers[f].currentDomElement].childNodes = HostNodesOf(fibers, fibers[f].child)

\* ---------------------------------------------------------------------------
\* C3  Nothing of an abandoned render is applied by a later commit: a fiber the
\* committed render matched (it is the alternate of a fiber of the tree being
\* committed) is not on the deletions list the commit processes.
\* ---------------------------------------------------------------------------
C3_NoAbandonedDeletion ==
    Committing =>
        \A f \in TreeOf(fibers, last.atCommit.root) :
            fibers[f].alternate # NULL =>
                fibers[f].alternate \notin Range(last.atCommit.deletions)

\* ---------------------------------------------------------------------------
\* C4  After commitRoot completes the deletions list is empty.
\* ---------------------------------------------------------------------------
C4_DeletionsCleared == last.completed => deletions = <<>>

\* ---------------------------------------------------------------------------
\* C5  Whenever commitRoot completes, currentRoot is the root that was the
\* work-in-progress root when it started and workInProgressRoot is null.
\* ---------------------------------------------------------------------------
C5_Promoted ==
    last.completed => currentRoot = last.atCommit.root /\ workInProgressRoot = NULL

\* ---------------------------------------------------------------------------
\* C6  Idempotent no-op render, effects.  When the tree being committed was
\* rendered from the same elements as the committed tree it is diffed against,
\* every fiber below its root is tagged UPDATE, the deletions list is empty at
\* the commit, and the commit attaches and removes no node.
\* ---------------------------------------------------------------------------
RECURSIVE SameElements(_, _)
SameElements(f, g) ==
    IF f = NULL \/ g = NULL THEN f = g
    ELSE /\ fibers[f].type = fibers[g].type
         /\ fibers[f].props = fibers[g].props
         /\ fibers[f].children = fibers[g].children
         /\ SameElements(fibers[f].child, fibers[g].child)
         /\ SameElements(fibers[f].sibling, fibers[g].sibling)

\* the commit of the last handler is a re-render of an unchanged element tree
UnchangedRerender ==
    /\ Committing
    /\ last.atCommit.root # NULL
    /\ fibers[last.atCommit.root].alternate # NULL
    /\ fibers[last.atCommit.root].children =
           fibers[fibers[last.atCommit.root].alternate].children
    /\ SameElements(fibers[last.atCommit.root].child,
                    fibers[fibers[last.atCommit.root].alternate].child)

C6_NoopRenderEffects ==
    UnchangedRerender =>
        /\ \A f \in TreeOf(fibers, fibers[last.atCommit.root].child) :
               fibers[f].effectTag = "UPDATE"
        /\ last.atCommit.deletions = <<>>
        /\ LogOps({"appendChild", "removeChild", "removeChild!"}) = {}

\* ---------------------------------------------------------------------------
\* C7  Idempotent no-op render, props.  The commit of a host fiber tagged UPDATE
\* whose props equal those of its alternate sets and removes no attribute,
\* adds and removes no listener, and leaves the listeners of its node as they were.
\* ---------------------------------------------------------------------------
EqualPropsUpdates ==
    {f \in TreeOf(fibers, fibers[last.atCommit.root].child) :
        /\ fibers[f].effectTag = "UPDATE"
        /\ fibers[f].alternate # NULL
        /\ fibers[f].currentDomElement # NULL
        /\ fibers[fibers[f].alternate].props = fibers[f].props}

C7_EqualPropsNoMutation ==
    (Committing /\ last.completed /\ last.atCommit.root # NULL) =>
        \A f \in EqualPropsUpdates :
            LET n == fibers[f].currentDomElement
            IN /\ \A i \in LogOps({"setAttribute", "removeAttribute",
                                   "addEventListener", "removeEventListener"}) :
                      last.log[i].node # n
               /\ n \in DOMAIN last.atCommit.host =>
                      nodes[n].listeners = last.atCommit.host[n].listeners

\* ---------------------------------------------------------------------------
\* C8  Positional diff of committed children of types [A, B, C] against
\* declared children of types [A, C].
\* ---------------------------------------------------------------------------
\* the last reconcileChildren call diffed old types [A, B, C] against [A, C]
DiffABCvsAC ==
    /\ Len(last.recon.old) = 3 /\ Len(last.recon.declared) = 2
    /\ FiberTypes(last.recon.old)[1] = ElementTypes(last.recon.declared)[1]
    /\ FiberTypes(last.recon.old)[3] = ElementTypes(last.recon.declared)[2]

UpdateOf(new, old, element) ==
    /\ new # NULL
    /\ fibers[new].effectTag = "UPDATE"
    /\ fibers[new].alternate = old
    /\ fibers[new].currentDomElement = fibers[old].currentDomElement
    /\ fibers[new].props = element.props

PlacementOf(new, element) ==
    /\ new # NULL
    /\ fibers[new].effectTag = "PLACEMENT"
    /\ fibers[new].alternate = NULL
    /\ fibers[new].currentDomElement = NULL
    /\ fibers[new].type = element.type
    /\ fibers[new].props = element.props

\* C8 as claimed: fiber@1 is an UPDATE on the node of old fiber@1 (B) with C's
\* props and only old fiber@2 (C) is deleted
C8_AsClaimed ==
    DiffABCvsAC =>
        /\ UpdateOf(last.recon.new[1], last.recon.old[1], last.recon.declared[1])
        /\ UpdateOf(last.recon.new[2], last.recon.old[2], last.recon.declared[2])
        /\ last.recon.pushed = <<last.recon.old[3]>>
        /\ fibers[last.recon.old[3]].effectTag = "DELETION"

\* C8 amended: that result is produced when B and C are the same type; when
\* they differ fiber@1 is a PLACEMENT of C without host node or alternate, and
\* old fibers @1 (B) and @2 (C) are both tagged DELETION, in this order.
C8_PositionalDiff ==
    DiffABCvsAC =>
        /\ UpdateOf(last.recon.new[1], last.recon.old[1], last.recon.declared[1])
        /\ IF fibers[last.recon.old[2]].type = last.recon.declared[2].type
           THEN /\ UpdateOf(last.recon.new[2], last.recon.old[2], last.recon.declared[2])
                /\ last.recon.pushed = <<last.recon.old[3]>>
           ELSE /\ PlacementOf(last.recon.new[2], last.recon.declared[2])
                /\ last.recon.pushed = <<last.recon.old[2], last.recon.old[3]>>
                /\ fibers[last.recon.old[2]].effectTag = "DELETION"
        /\ fibers[last.recon.old[3]].effectTag = "DELETION"
        /\ Len(last.recon.new) = 3 /\ last.recon.new[3] = NULL

\* the diff happened with B and C of different types
C8_Witness ==
    /\ DiffABCvsAC
    /\ fibers[last.recon.old[2]].type # last.recon.declared[2].type
    /\ fibers[last.recon.old[2]].type # fibers[last.recon.old[3]].type
    /\ fibers[last.recon.old[2]].currentDomElement # NULL

\* ---------------------------------------------------------------------------
\* C9  A committed list of n children of one type, re-rendered with one middle
\* item removed: the fibers at positions 0..n-2 are UPDATEs, each on the node
\* and with the alternate of the old fiber at the same index, and the only
\* fiber pushed on the deletions list is the old fiber at index n-1.
\* ---------------------------------------------------------------------------
\* element e is the element old fiber f was rendered from
ElementOfFiber(e, f) ==
    e.type = fibers[f].type /\ e.props = fibers[f].props /\ e.children = fibers[f].children

\* the declared children are the old children without the k-th (counted from 1)
DeclaredIsOldWithout(k) ==
    /\ Len(last.recon.declared) = Len(last.recon.old) - 1
    /\ \A i \in 1..Len(last.recon.declared) :
           ElementOfFiber(last.recon.declared[i],
                          last.recon.old[IF i < k THEN i ELSE i + 1])

MiddleItemRemoved ==
    /\ Len(last.recon.old) >= 3
    /\ \A i \in DOMAIN last.recon.old :
           fibers[last.recon.old[i]].type = fibers[last.recon.old[1]].type
    /\ last.recon.old[1] \in TreeOf(fibers, currentRoot)
    /\ \E k \in 2..(Len(last.recon.old) - 1) : DeclaredIsOldWithout(k)

C9_ListRemoval ==
    MiddleItemRemoved =>
        /\ \A i \in 1..(Len(last.recon.old) - 1) :
               UpdateOf(last.recon.new[i], last.recon.old[i], last.recon.declared[i])
        /\ last.recon.pushed = <<last.recon.old[Len(last.recon.old)]>>
        /\ last.recon.new[Len(last.recon.old)] = NULL

\* a middle item was removed, and a new fiber has the alternate and the node of
\* another item than the one it declares
C9_Witness ==
    /\ MiddleItemRemoved
    /\ \E i \in 1..(Len(last.recon.old) - 1) :
           /\ fibers[last.recon.new[i]].alternate = last.recon.old[i]
           /\ fibers[last.recon.old[i]].currentDomElement # NULL
           /\ fibers[last.recon.new[i]].props # fibers[last.recon.old[i]].props

\* ---------------------------------------------------------------------------
\* C10  Reconciliation, matching case: at every position where an old fiber and
\* a declared element of the same type meet, the new fiber is an UPDATE whose
\* alternate is the old fiber, with the old fiber's node and the element's
\* props, and the call does not push the old fiber on the deletions list.
\* ---------------------------------------------------------------------------
MatchingPositions ==
    {i \in DOMAIN last.recon.old \cap DOMAIN last.recon.declared :
        /\ IsElement(last.recon.declared[i])
        /\ last.recon.declared[i].type = fibers[last.recon.old[i]].type}

C10_MatchingCase ==
    \A i \in MatchingPositions :
        /\ UpdateOf(last.recon.new[i], last.recon.old[i], last.recon.declared[i])
        /\ fibers[last.recon.new[i]].type = last.recon.declared[i].type
        /\ last.recon.old[i] \notin Range(last.recon.pushed)

\* a matching position whose old fiber has a node and other props than declared
C10_Witness ==
    \E i \in MatchingPositions :
        /\ fibers[last.recon.old[i]].currentDomElement # NULL
        /\ fibers[last.recon.old[i]].props # last.recon.declared[i].props

\* ---------------------------------------------------------------------------
\* C11  Reconciliation, non-matching case: at every position of a
\* reconcileChildren call where the types differ or one side is missing, a
\* declared element yields a PLACEMENT fiber with null node and null alternate,
\* and an old fiber is tagged DELETION, pushed exactly once by the call and not
\* linked into the new chain; the new chain of the parent is one fiber per
\* declared element, in declared order.
\* ---------------------------------------------------------------------------
Count(seq, x) == Cardinality({i \in DOMAIN seq : seq[i] = x})

Declares(i) == i \in DOMAIN last.recon.declared /\ IsElement(last.recon.declared[i])

NonMatchingPositions ==
    (DOMAIN last.recon.old \cup DOMAIN last.recon.declared) \ MatchingPositions

NewChain == Chain(fibers, fibers[last.recon.parent].child)

C11_NonMatchingCase ==
    last.recon.parent # NULL =>
        /\ \A i \in NonMatchingPositions :
               /\ Declares(i) => PlacementOf(last.recon.new[i], last.recon.declared[i])
               /\ i \in DOMAIN last.recon.old =>
                      /\ fibers[last.recon.old[i]].effectTag = "DELETION"
                      /\ Count(last.recon.pushed, last.recon.old[i]) = 1
                      /\ Count(deletions, last.recon.old[i]) >= 1
                      /\ last.recon.old[i] \notin Range(NewChain)
        /\ NewChain = SelectSeq(last.recon.new, LAMBDA f : f # NULL)
        /\ Len(NewChain) = Cardinality({i \in DOMAIN last.recon.declared : Declares(i)})
        /\ \A i \in DOMAIN last.recon.declared :
               Declares(i) => /\ last.recon.new[i] # NULL
                              /\ fibers[last.recon.new[i]].type = last.recon.declared[i].type
                              /\ fibers[last.recon.new[i]].props = last.recon.declared[i].props
                              /\ fibers[last.recon.new[i]].parentFiber = last.recon.parent

\* one call met a position with both sides of different types, and a position
\* where only the old fiber exists
C11_Witness ==
    /\ last.recon.parent # NULL
    /\ \E i \in NonMatchingPositions : Declares(i) /\ i \in DOMAIN last.recon.old
    /\ \E i \in NonMatchingPositions : ~Declares(i) /\ i \in DOMAIN last.recon.old

\* ---------------------------------------------------------------------------
\* C12  The state useState returns for a slot is the left fold, in enqueue
\* order, of the updaters queued on the slot since its last read over the
\* slot's previous state; a setter call with a plain value is the constant
\* updater returning that value.
\* ---------------------------------------------------------------------------
\* the updater of a queued action, applied to a state
UpdaterOf(action, state) ==
    CASE action.kind = "fn" -> state + action.v
      [] action.kind = "const" -> action.v

\* the left fold of the updaters of a queue, by induction on its last element
RECURSIVE FoldUpdaters(_, _)
FoldUpdaters(queue, state) ==
    IF queue = <<>> THEN state
    ELSE UpdaterOf(queue[Len(queue)], FoldUpdaters(SubSeq(queue, 1, Len(queue) - 1), state))

Reverse(seq) == [i \in DOMAIN seq |-> seq[Len(seq) + 1 - i]]

C12_FoldInOrder ==
    \A i \in DOMAIN last.reads :
        /\ last.reads[i].returned = FoldUpdaters(last.reads[i].queue, last.reads[i].state)
        /\ last.reads[i].fresh => last.reads[i].state = last.reads[i].initialValue
        /\ hooks[last.reads[i].hook].state = last.reads[i].returned

\* a read of a slot with a function updater and a plain value queued, in an
\* order that matters
C12_Witness ==
    \E i \in DOMAIN last.reads :
        /\ \E j, k \in DOMAIN last.reads[i].queue :
               last.reads[i].queue[j].kind = "fn" /\ last.reads[i].queue[k].kind = "const"
        /\ FoldUpdaters(last.reads[i].queue, last.reads[i].state)
               # FoldUpdaters(Reverse(last.reads[i].queue), last.reads[i].state)

\* ---------------------------------------------------------------------------
\* C13  Hook state continuity: a slot that started at state 0 and whose setter
\* was called k times with the updater n -> n + 1 has state k at its next read,
\* however the k calls are spread over renders: one render-and-commit cycle
\* after each call, or all k calls before any render runs.
\* ---------------------------------------------------------------------------
IsIncrement(action) == action.kind = "fn" /\ action.v = 1

\* the slots that started at 0 and were only ever passed the updater n -> n + 1
CountingSlots ==
    {h \in DOMAIN hooks :
        /\ history[h].initial = 0
        /\ \A i \in DOMAIN history[h].calls : IsIncrement(history[h].calls[i])}

C13_StateContinuity ==
    \A i \in DOMAIN last.reads :
        last.reads[i].hook \in CountingSlots =>
            last.reads[i].returned = Len(history[last.reads[i].hook].calls)

\* a slot read with two calls pending: both were made before any render ran
C13_Witness ==
    \E i \in DOMAIN last.reads :
        /\ last.reads[i].hook \in CountingSlots
        /\ Len(last.reads[i].queue) = 2
        /\ last.reads[i].state = 0
        /\ last.reads[i].returned = 2

\* the other schedule: the second call was made after the first was rendered
\* and committed (the document shows state 1)
C13_WitnessCycles ==
    \E i \in DOMAIN last.reads :
        /\ last.reads[i].hook \in CountingSlots
        /\ Len(last.reads[i].queue) = 1
        /\ last.reads[i].state = 1
        /\ last.reads[i].returned = 2
        /\ \E n \in DOMAIN nodes :
               /\ Attached(nodes, n)
               /\ K_id \in DOMAIN nodes[n].attributes
               /\ nodes[n].attributes[K_id] = "1"

\* ---------------------------------------------------------------------------
\* C14  Every updater passed to the setter of a component of the committed
\* tree is applied to its slot exactly once by the time the next commit
\* happens, also when a render in flight is superseded; after useState returns
\* the slot's queue is empty.
\* ---------------------------------------------------------------------------
\* the Hook objects of the fibers of the tree under root
SlotsOfTree(root) == UNION {Range(fibers[f].hooks) : f \in TreeOf(fibers, root)}

\* every updater ever passed to the setter of h has been applied exactly once,
\* in call order, and none is pending
AppliedOnce(h) ==
    /\ hooks[h].queue = <<>>
    /\ hooks[h].state = FoldUpdaters(history[h].calls, history[h].initial)

\* the slots all of whose setter calls came from components of the committed tree
CalledWhileMounted ==
    {h \in DOMAIN hooks : \A i \in DOMAIN history[h].mounted : history[h].mounted[i]}

QueueEmptyAfterRead == \A i \in DOMAIN last.reads : hooks[last.reads[i].hook].queue = <<>>

RECURSIVE PathOf(_, _)
PathOf(fs, f) ==
    IF fs[f].parentFiber = NULL THEN <<>>
    ELSE LET siblings == Chain(fs, fs[fs[f].parentFiber].child)
         IN Append(PathOf(fs, fs[f].parentFiber),
                   CHOOSE i \in DOMAIN siblings : siblings[i] = f)

\* the committed tree has a fiber of the type of f at the position of f
MountedAt(f) ==
    \E g \in TreeOf(fibers, currentRoot) :
        fibers[g].type = fibers[f].type /\ PathOf(fibers, g) = PathOf(fibers, f)

\* the last unit rendered a component the committed tree does not have there
RendersUnmounted ==
    /\ last.unit # NULL /\ last.commits = 0 /\ currentRoot # NULL
    /\ IsFunction(fibers[last.unit].type)
    /\ ~MountedAt(last.unit)

C15_UnmountDiscardsState ==
    RendersUnmounted =>
        /\ fibers[last.unit].effectTag = "PLACEMENT"
        /\ fibers[last.unit].alternate = NULL
        /\ \A i \in DOMAIN last.reads :
               /\ last.reads[i].fresh
               /\ last.reads[i].returned = last.reads[i].initialValue
               /\ history[last.reads[i].hook].calls = <<>>

\* an instance at the same position had reached another state than the initial
\* one before it was removed
C15_Witness ==
    /\ RendersUnmounted
    /\ last.reads # <<>>
    /\ \E o \in DOMAIN fibers :
           /\ o < last.unit
           /\ fibers[o].type = fibers[last.unit].type
           /\ fibers[o].hooks # <<>>
           /\ PathOf(fibers, o) = PathOf(fibers, last.unit)
           /\ hooks[fibers[o].hooks[1]].state # last.reads[1].initialValue

\* ---------------------------------------------------------------------------
\* C16  Host node identity: a host node is created only for a fiber that has
\* none when it is first processed, a fiber matched to an old fiber keeps that
\* fiber's node, and the commit of a re-render of the same shape and types with
\* only text values changed attaches and removes no node and overwrites the
\* text nodes' values in place.
\* ---------------------------------------------------------------------------
\* a matched fiber has the node of the old fiber
HostNodeKept ==
    \A f \in DOMAIN fibers :
        fibers[f].alternate # NULL =>
            fibers[f].currentDomElement = fibers[fibers[f].alternate].currentDomElement

\* every node but the container was created for exactly one unmatched fiber
HostNodeCreatedOnce ==
    \A n \in DOMAIN nodes \ {Container} :
        Cardinality({f \in DOMAIN fibers :
                        fibers[f].alternate = NULL /\ fibers[f].currentDomElement = n}) = 1

\* the trees under f and g have the same shape, types and props, text values aside
RECURSIVE SameButText(_, _)
SameButText(f, g) ==
    IF f = NULL \/ g = NULL THEN f = g
    ELSE /\ fibers[f].type = fibers[g].type
         /\ fibers[f].type # TEXT_ELEMENT => fibers[f].props = fibers[g].props
         /\ SameButText(fibers[f].child, fibers[g].child)
         /\ SameButText(fibers[f].sibling, fibers[g].sibling)

TextFibers(root) == {f \in TreeOf(fibers, root) : fibers[f].type = TEXT_ELEMENT}

\* the commit of the last handler is a re-render with only text values changed
TextOnlyRerender ==
    /\ Committing
    /\ last.atCommit.root # NULL
    /\ fibers[last.atCommit.root].alternate # NULL
    /\ SameButText(fibers[last.atCommit.root].child,
                   fibers[fibers[last.atCommit.root].alternate].child)
    /\ \E f \in TextFibers(last.atCommit.root) :
           fibers[f].props # fibers[fibers[f].alternate].props

TextRerenderInPlace ==
    TextOnlyRerender =>
        /\ last.completed
        /\ LogOps({"appendChild", "removeChild", "removeChild!"}) = {}
        /\ \A f \in TextFibers(last.atCommit.root) :
               /\ fibers[f].currentDomElement = fibers[fibers[f].alternate].currentDomElement
               /\ nodes[fibers[f].currentDomElement].nodeValue = Get(fibers[f].props, K_value)
               /\ Attached(nodes, fibers[f].currentDomElement)

C16_HostNodeIdentity == HostNodeKept /\ HostNodeCreatedOnce /\ TextRerenderInPlace

\* ---------------------------------------------------------------------------
\* C17  A call of useState made while no unit of work is running (before any
\* render, after a commit, between two slices of a render in flight) throws
\* the invalid-hook-call error and changes nothing of the render state.
\* ---------------------------------------------------------------------------
C17_FailsOutsideRender ==
    [][last'.op = "useState" =>
           /\ last'.err = "InvalidHookCall"
           /\ UNCHANGED <<fibers, hooks, nodes, workInProgressRoot, nextUnitOfWork,
                          currentRoot, deletions, idleCallbacks>>]_vars

\* the part of C17 the code has: the call fails and changes nothing when
\* nextUnitOfWork is null
FailsWithoutUnit ==
    [][(last'.op = "useState" /\ nextUnitOfWork = NULL) =>
           /\ last'.err = "InvalidHookCall"
           /\ UNCHANGED <<fibers, hooks, nodes, workInProgressRoot, nextUnitOfWork,
                          currentRoot, deletions, idleCallbacks>>]_vars

\* ---------------------------------------------------------------------------
\* C18  A setter call, from a fiber at any depth, appends one updater to its
\* slot's queue and starts a new render of the whole tree: workInProgressRoot is
\* a fresh root fiber with the container's node, no child and alternate
\* currentRoot, nextUnitOfWork is that root, and a work slice is requested.  No
\* fiber is processed and no existing fiber is changed by the call.
\* ---------------------------------------------------------------------------
\* exactly one slot got exactly one more action at the end of its queue
OneUpdaterAppended ==
    /\ DOMAIN hooks' = DOMAIN hooks
    /\ \E h \in DOMAIN hooks :
           /\ Len(hooks'[h].queue) = Len(hooks[h].queue) + 1
           /\ SubSeq(hooks'[h].queue, 1, Len(hooks[h].queue)) = hooks[h].queue
           /\ hooks'[h].state = hooks[h].state
           /\ \A g \in DOMAIN hooks \ {h} : hooks'[g] = hooks[g]

FreshRootRender ==
    /\ Len(fibers') = Len(fibers) + 1
    /\ SubSeq(fibers', 1, Len(fibers)) = fibers
    /\ workInProgressRoot' = Len(fibers')
    /\ nextUnitOfWork' = workInProgressRoot'
    /\ fibers'[workInProgressRoot'].parentFiber = NULL
    /\ fibers'[workInProgressRoot'].currentDomElement = Container
    /\ fibers'[workInProgressRoot'].child = NULL
    /\ fibers'[workInProgressRoot'].alternate = currentRoot
    /\ idleCallbacks' = idleCallbacks + 1
    /\ UNCHANGED <<currentRoot, nodes>>
    /\ last'.unit = NULL

C18_SetterStartsRootRender ==
    [][last'.op = "click" => OneUpdaterAppended /\ FreshRootRender]_vars

\* the setter of a component three levels below the root was called
C18_Witness ==
    /\ last.op = "click"
    /\ \E f \in DOMAIN fibers :
           /\ Len(PathOf(fibers, f)) >= 3
           /\ \E i \in DOMAIN fibers[f].hooks : hooks[fibers[f].hooks[i]].queue # <<>>

\* ---------------------------------------------------------------------------
\* C19  Yield and resume lose no state: from any point of a render, with no
\* render or setter call in between, the tree committed, the deletions
\* processed and the resulting host tree are the same whether the remaining
\* units run in one slice, one unit per slice, or with slices of zero budget in
\* between; a slice of zero budget performs no unit and leaves nextUnitOfWork
\* as it is.
\* ---------------------------------------------------------------------------
\* the browser runs one pending idle callback with the given budget
Slice(d, budget) == workLoop([d EXCEPT !.idleCallbacks = @ - 1], budget)

\* the rest of the render in slices of one unit, each after a slice of zero
\* budget if idle
RECURSIVE RunSliced(_, _)
RunSliced(d, idle) ==
    LET d1 == Slice(IF idle THEN Slice(d, "none") ELSE d, "one")
    IN IF d1.nextUnitOfWork # NULL THEN RunSliced(d1, idle) ELSE d1

\* what a run leaves behind: the fiber and hook heaps with the tree committed,
\* the deletions processed, the host tree, and how commitRoot ended
Outcome(d) ==
    [fibers |-> d.fibers, hooks |-> d.hooks, currentRoot |-> d.currentRoot,
     workInProgressRoot |-> d.workInProgressRoot, nextUnitOfWork |-> d.nextUnitOfWork,
     deletions |-> d.deletions, processed |-> d.atCommit.deletions,
     host |-> HostTree(d.nodes), nodes |-> d.nodes, err |-> d.err,
     commits |-> d.commits, promoted |-> d.promoted]

RenderInFlight == nextUnitOfWork # NULL /\ idleCallbacks > 0

C19_SlicingInvisible ==
    RenderInFlight =>
        /\ Outcome(RunSliced(Cur, FALSE)) = Outcome(Slice(Cur, "all"))
        /\ Outcome(RunSliced(Cur, TRUE)) = Outcome(Slice(Cur, "all"))
        /\ Outcome(Slice(Cur, "none")) = Outcome(Cur)
        /\ Slice(Cur, "none").unit = NULL
        /\ Slice(Cur, "none").idleCallbacks = idleCallbacks

\* a re-render that has yielded after some of its units, with at least two
\* units and a deletion still to come before its commit
C19_Witness ==
    /\ RenderInFlight
    /\ last.op = "workLoop" /\ last.unit # NULL /\ currentRoot # NULL
    /\ Slice(Slice(Cur, "one"), "one").commits = 0
    /\ Slice(Cur, "all").promoted
    /\ Slice(Cur, "all").atCommit.deletions # deletions

\* ---------------------------------------------------------------------------
\* C20  One render pass processes every fiber of the work-in-progress tree
\* exactly once, in depth-first pre-order (a fiber before its children, a child
\* chain from left to right), and nextUnitOfWork becomes null only after the
\* last fiber: from any point of a render the units still to be processed are
\* the rest of the pre-order of the finished tree.
\* ---------------------------------------------------------------------------
\* the units the scheduler processes from d until nextUnitOfWork is null
RECURSIVE UnitsFrom(_)
UnitsFrom(d) ==
    IF d.nextUnitOfWork = NULL THEN <<>>
    ELSE <<d.nextUnitOfWork>> \o UnitsFrom(performUnitOfWork(d))

\* the depth-first pre-order of the tree under f
RECURSIVE PreOrder(_, _)
PreOrder(fs, f) ==
    IF f = NULL THEN <<>>
    ELSE <<f>> \o PreOrder(fs, fs[f].child) \o PreOrder(fs, fs[f].sibling)

\* the pre-order of the work-in-progress tree as it is when the pass ends
FinishedPreOrder == PreOrder(workLoopUnits(Cur, "all").fibers, workInProgressRoot)

IndexOf(seq, x) == CHOOSE i \in DOMAIN seq : seq[i] = x

C20_PreOrderOnce ==
    nextUnitOfWork # NULL =>
        /\ workInProgressRoot # NULL
        /\ nextUnitOfWork \in Range(FinishedPreOrder)
        /\ UnitsFrom(Cur) = SubSeq(FinishedPreOrder,
                                   IndexOf(FinishedPreOrder, nextUnitOfWork),
                                   Len(FinishedPreOrder))
        /\ fibers[workInProgressRoot].child = NULL => UnitsFrom(Cur) = FinishedPreOrder
        /\ Cardinality(Range(FinishedPreOrder)) = Len(FinishedPreOrder)

\* a pass at its start whose tree has a fiber without child and sibling under a
\* parent without sibling: the next unit is the sibling of the grandparent
C20_Witness ==
    /\ nextUnitOfWork # NULL /\ nextUnitOfWork = workInProgressRoot
    /\ fibers[workInProgressRoot].child = NULL
    /\ LET fs == workLoopUnits(Cur, "all").fibers
           units == UnitsFrom(Cur)
       IN \E i \in 1..(Len(units) - 1) :
              /\ fs[units[i]].child = NULL /\ fs[units[i]].sibling = NULL
              /\ fs[fs[units[i]].parentFiber].sibling = NULL
              /\ units[i + 1] = fs[fs[fs[units[i]].parentFiber].parentFiber].sibling
              /\ units[i + 1] # NULL

\* ---------------------------------------------------------------------------
\* C21  commitRoot runs only when nextUnitOfWork is null and workInProgressRoot
\* is set, a handler calls it at most once, and no work-in-progress root is
\* committed twice, also with several idle callbacks pending.  (A root that is
\* still workInProgressRoot after its commit is committed again by the next
\* idle callback or never: render and setState replace it by a new root.)
\* ---------------------------------------------------------------------------
CommitRootGuarded ==
    Committing => /\ last.atCommit.nextUnitOfWork = NULL
                  /\ last.atCommit.root # NULL
                  /\ last.commits = 1

C21_CommitOnce ==
    [][last'.commits > 0 =>
           /\ last'.atCommit.nextUnitOfWork = NULL
           /\ last'.atCommit.root # NULL
           /\ last'.commits = 1
           /\ ~(last.commits > 0 /\ last.atCommit.root = last'.atCommit.root)]_vars

\* ---------------------------------------------------------------------------
\* C22  The render phase changes no field of a fiber of the committed tree and
\* no hook slot stored on one: a work slice that does not commit leaves the
\* committed tree, with its effect tags, hook states and queues, as it was.
\* ---------------------------------------------------------------------------
CommittedFibers == TreeOf(fibers, currentRoot)

C22_OldTreeReadOnly ==
    [][(last'.op = "workLoop" /\ last'.commits = 0) =>
           /\ \A f \in CommittedFibers : fibers'[f] = fibers[f]
           /\ \A h \in SlotsOfTree(currentRoot) : hooks'[h] = hooks[h]]_vars

\* the fields of the committed fibers other than effectTag, which C22 as
\* claimed includes, are not changed by the render phase
OldTreeKeptButTag ==
    [][(last'.op = "workLoop" /\ last'.commits = 0) =>
           \A f \in CommittedFibers :
               [fibers'[f] EXCEPT !.effectTag = "UPDATE"] = [fibers[f] EXCEPT !.effectTag = "UPDATE"]]_vars

\* ---------------------------------------------------------------------------
\* C23  createElement omits null, boolean and unsupported children, turns every
\* string or number child, whatever its text, into a text element of that
\* string form with no children, passes element children through unchanged,
\* and keeps the relative order of the remaining children.
\* ---------------------------------------------------------------------------
\* the child the claim gives for a raw child; NoElement when it is omitted
ClaimedChild(child) ==
    IF child.kind = "object" THEN child.v
    ELSE IF child.kind = "string" THEN createTextElement(child.v)
    ELSE IF child.kind = "number" THEN createTextElement(ToString(child.v))
    ELSE NoElement

ClaimedChildren(children) ==
    SelectSeq([i \in DOMAIN children |-> ClaimedChild(children[i])], IsElement)

C23_ChildrenNormalised ==
    created.type # NoCall.type =>
        created.result.children = ClaimedChildren(created.children)

\* what holds: the same, for children other than the strings "true" and "false"
ChildrenNormalisedButBooleanText ==
    (created.type # NoCall.type /\ \A i \in DOMAIN created.children :
                            ~(/\ created.children[i].kind = "string"
                              /\ created.children[i].v \in {"true", "false"}))
    => created.result.children = ClaimedChildren(created.children)

DeletedHostNodes(f) ==
    IF fibers[f].currentDomElement # NULL THEN <<fibers[f].currentDomElement>>
    ELSE HostNodesOf(fibers, fibers[f].child)

RemovedFrom(n, p) ==
    \E j \in LogOps({"removeChild"}) : last.log[j].node = n /\ last.log[j].key = <<p>>

DeletionDone(f) ==
    LET p == fibers[DomParentFiber(fibers, fibers[f].parentFiber)].currentDomElement
    IN \A k \in DOMAIN DeletedHostNodes(f) :
           /\ RemovedFrom(DeletedHostNodes(f)[k], p)
           /\ ~Attached(nodes, DeletedHostNodes(f)[k])

C25_DeletionRemovesHostNodes ==
    Committing => \A i \in DOMAIN last.atCommit.deletions : DeletionDone(last.atCommit.deletions[i])

\* what holds: the same for the commits that return
DeletionRemovesHostNodesUnlessThrown ==
    (Committing /\ last.completed) =>
        \A i \in DOMAIN last.atCommit.deletions : DeletionDone(last.atCommit.deletions[i])

\* ---------------------------------------------------------------------------
\* C26  A prop key that begins with "on" only ever attaches or detaches a
\* listener and never sets an attribute of that name, and after a commit the
\* listeners of a host node are exactly the event-handler props of the props
\* of its fiber.
\* ---------------------------------------------------------------------------
EventAttributes(n) == {k \in DOMAIN nodes[n].attributes : isEvent(k)}

EventHandlerProps(props) == {<<eventTypeOf(k), props[k]>> : k \in {x \in DOMAIN props : isEvent(x)}}

ElementFibers(root) ==
    {f \in TreeOf(fibers, root) :
        /\ ~IsFunction(fibers[f].type)
        /\ fibers[f].type # TEXT_ELEMENT
        /\ fibers[f].parentFiber # NULL
        /\ fibers[f].currentDomElement # NULL}

ListenersMatchProps(f) ==
    Range(nodes[fibers[f].currentDomElement].listeners) = EventHandlerProps(fibers[f].props)

C26_EventKeysAreListenersOnly ==
    /\ \A n \in DOMAIN nodes : EventAttributes(n) = {}
    /\ Committed => \A f \in ElementFibers(currentRoot) : ListenersMatchProps(f)

\* what holds: the second half, for the commit of a first render
ListenersAfterMount ==
    (Committed /\ last.atCommit.root # NULL /\ fibers[currentRoot].alternate = NULL) =>
        \A f \in ElementFibers(currentRoot) : ListenersMatchProps(f)

\* ---------------------------------------------------------------------------
\* C27  An UPDATE-tagged fiber without alternate is a no-op at commit
\* (commitWorkEffect leaves the machine as it is for such a fiber).  No such
\* fiber is ever walked by commitWork: every UPDATE fiber below a root was made
\* by reconcileSameType, with the old fiber as alternate, and the roots, which
\* scheduleRender tags UPDATE, are skipped by the walk.
\* ---------------------------------------------------------------------------
UpdateFibersHaveAlternate ==
    \A f \in DOMAIN fibers :
        (fibers[f].effectTag = "UPDATE" /\ fibers[f].parentFiber # NULL)
            => fibers[f].alternate # NULL

\* ---------------------------------------------------------------------------
\* C28  In every reachable state every composite (function-typed) fiber has a
\* null host node, and neither the committed tree nor the work-in-progress
\* tree has two fibers that hold the same host node.
\* ---------------------------------------------------------------------------
HostNodesDistinct(root) ==
    \A f, g \in TreeOf(fibers, root) :
        (f # g /\ fibers[f].currentDomElement # NULL)
            => fibers[f].currentDomElement # fibers[g].currentDomElement

C28_HostNodeOwnership ==
    /\ \A f \in DOMAIN fibers : IsFunction(fibers[f].type) => fibers[f].currentDomElement = NULL
    /\ HostNodesDistinct(currentRoot)
    /\ HostNodesDistinct(workInProgressRoot)

\* a render in progress over a committed tree: both trees hold a composite
\* fiber, and a fiber of the new tree holds the node of a fiber of the old one
C28_Witness ==
    /\ currentRoot # NULL
    /\ workInProgressRoot # NULL
    /\ \E f \in TreeOf(fibers, currentRoot) : IsFunction(fibers[f].type)
    /\ \E g \in TreeOf(fibers, workInProgressRoot) : IsFunction(fibers[g].type)
    /\ \E f \in TreeOf(fibers, currentRoot), g \in TreeOf(fibers, workInProgressRoot) :
           /\ fibers[f].parentFiber # NULL
           /\ fibers[f].currentDomElement # NULL
           /\ fibers[g].currentDomElement = fibers[f].currentDomElement

\* ---------------------------------------------------------------------------
\* C29  Hook slots are aligned by call order: when a component that calls
\* useState m times is rendered, its k-th call receives the slot its k-th call
\* stored in the previous render of the fiber at that tree position (a new slot
\* at a first render), and the hook index of the new fiber counts from 0 the
\* useState calls made: after the m calls it is m, the k-th call's slot being
\* stored at index k - 1.
\* ---------------------------------------------------------------------------
\* the last unit processed was a component
ComponentRendered == last.unit # NULL /\ IsFunction(fibers[last.unit].type)

SlotsAligned(f) ==
    LET a == fibers[f].alternate
    IN /\ fibers[f].hookIndex = Len(last.reads)
       /\ fibers[f].hooks = [k \in DOMAIN last.reads |-> last.reads[k].hook]
       /\ \A k \in DOMAIN last.reads :
              IF a # NULL /\ k <= Len(fibers[a].hooks)
              THEN ~last.reads[k].fresh /\ last.reads[k].hook = fibers[a].hooks[k]
              ELSE last.reads[k].fresh
       /\ \A j, k \in DOMAIN last.reads : j # k => last.reads[j].hook # last.reads[k].hook

C29_HookSlotsAligned ==
    /\ ComponentRendered => SlotsAligned(last.unit)
    /\ \A f \in DOMAIN fibers : fibers[f].hookIndex = Len(fibers[f].hooks)
    /\ \A f \in TreeOf(fibers, nextUnitOfWork) : fibers[f].hookIndex = 0

\* a re-render of the component with two hooks, after a setter call on each
C29_Witness ==
    /\ ComponentRendered
    /\ Len(last.reads) = 2
    /\ fibers[last.unit].alternate # NULL
    /\ \A k \in DOMAIN last.reads :
           ~last.reads[k].fresh /\ last.reads[k].returned # last.reads[k].initialValue

\* ---------------------------------------------------------------------------
\* C30  Every host node is removed from the host tree at most once: no commit
\* asks to remove a node that is not, at that moment, a child of the parent it
\* is removed from, and no fiber occurs twice in the deletions list that a
\* commit processes.
\* ---------------------------------------------------------------------------
NoDuplicates(seq) == \A i, j \in DOMAIN seq : i # j => seq[i] # seq[j]

C30_RemovedAtMostOnce ==
    Committing => /\ LogOps({"removeChild!"}) = {}
                  /\ NoDuplicates(last.atCommit.deletions)

\* what holds: within one commit no node is removed twice
RemovedOncePerCommit ==
    Committing => \A i, j \in LogOps({"removeChild"}) :
                      i # j => last.log[i].node # last.log[j].node

\* ---------------------------------------------------------------------------
\* C31  Every started render eventually commits: when the requests have come
\* to an end and the environment keeps delivering work slices with time left,
\* workInProgressRoot becomes null and currentRoot the tree of the last
\* requested render; and whenever nextUnitOfWork is set between two handlers,
\* a work-slice callback is pending.
\* ---------------------------------------------------------------------------
\* the root fiber made by the latest render() or setter call
Roots == {f \in DOMAIN fibers : fibers[f].parentFiber = NULL}
LatestRoot == IF Roots = {} THEN NULL ELSE CHOOSE f \in Roots : \A g \in Roots : g <= f

SlicePending == nextUnitOfWork # NULL => idleCallbacks > 0

RenderSettled == workInProgressRoot = NULL /\ currentRoot = LatestRoot

C31_RenderEventuallyCommits == []SlicePending /\ <>[]RenderSettled

\* the render of the only element of an application settles at its first commit
C31_FirstRenderSettles ==
    (requests = 1 /\ workInProgressRoot # NULL) ~> (requests # 1 \/ RenderSettled)

\* the steps the fairness condition counts are work slices, and no fiber lies
\* beyond the bound it is stated with
SliceRunsIsWorkLoop ==
    [][(SliceRuns /\ <<idleCallbacks, nextUnitOfWork>>' # <<idleCallbacks, nextUnitOfWork>>)
           => (last'.op = "workLoop" /\ Len(fibers') <= MaxFibers)]_vars

\* ---------------------------------------------------------------------------
\* C32  The element passed to the most recent render() call is the one that
\* ends up committed: once render(e) was called, every later commit promotes a
\* tree whose root child is built from e, also when the setter of an earlier
\* generation is called while the render of e is in flight or after it.
\* ---------------------------------------------------------------------------
\* the root fibers made by render() (those of scheduleRender are tagged UPDATE)
RenderRoots == {f \in Roots : fibers[f].effectTag = "PLACEMENT"}
LatestRenderRoot == CHOOSE f \in RenderRoots : \A g \in RenderRoots : g <= f

C32_LatestElementCommitted ==
    (Committed /\ RenderRoots # {}) =>
        fibers[currentRoot].children = fibers[LatestRenderRoot].children

\* what holds: the same for the commits of trees that render() itself started
RenderedElementCommitted ==
    (Committed /\ currentRoot \in RenderRoots) => currentRoot = LatestRenderRoot

\* ---------------------------------------------------------------------------
\* C33  In every reachable state, if nextUnitOfWork is set then
\* workInProgressRoot is set and nextUnitOfWork is that root or a fiber
\* reachable from it through child and sibling links; the scheduler never
\* processes a fiber of the committed tree or of an abandoned tree.
\* ---------------------------------------------------------------------------
\* the tree the last work slice worked on: the one it promoted, or the one in
\* progress
WorkedRoot == IF last.promoted THEN currentRoot ELSE workInProgressRoot

C33_UnitInWorkInProgressTree ==
    /\ nextUnitOfWork # NULL =>
           /\ workInProgressRoot # NULL
           /\ nextUnitOfWork \in TreeOf(fibers, workInProgressRoot)
           /\ nextUnitOfWork \notin TreeOf(fibers, currentRoot)
    /\ (last.op = "workLoop" /\ last.unit # NULL) =>
           /\ findRoot(fibers, last.unit) = WorkedRoot
           /\ last.unit \in TreeOf(fibers, WorkedRoot)

\* a unit below the root of a render that goes on beside a committed tree and
\* an abandoned tree
C33_Witness ==
    /\ currentRoot # NULL
    /\ last.op = "workLoop"
    /\ nextUnitOfWork # NULL
    /\ nextUnitOfWork # workInProgressRoot
    /\ \E r \in Roots : /\ r \notin {workInProgressRoot, currentRoot}
                        /\ r > currentRoot
                        /\ fibers[r].child # NULL

\* ---------------------------------------------------------------------------
\* C34  currentRoot changes only inside commitRoot, and every tree it points
\* to is fully reconciled: each of its fibers was processed as a unit of work
\* (its children were reconciled) and each non-composite fiber has a host
\* node; render(), a setter call and a work slice that does not reach the
\* commit leave currentRoot unchanged.
\* ---------------------------------------------------------------------------
\* fiber f of fs was processed: it has one child fiber for each element it
\* declares (a component declares the one element it returns)
Reconciled(fs, f) ==
    Len(Chain(fs, fs[f].child)) =
        IF IsFunction(fs[f].type) THEN 1 ELSE Len(SelectSeq(fs[f].children, IsElement))

FullyReconciled(fs, root) ==
    \A f \in TreeOf(fs, root) :
        /\ Reconciled(fs, f)
        /\ ~IsFunction(fs[f].type) => fs[f].currentDomElement # NULL

C34_CurrentRootFrame ==
    [][/\ currentRoot' # currentRoot =>
              /\ last'.commits > 0
              /\ last'.promoted
              /\ FullyReconciled(fibers', currentRoot')
       /\ (last'.op \in {"render", "click"} \/ last'.commits = 0) =>
              currentRoot' = currentRoot]_vars

\* the commit of a re-render promoted a tree with a component and host fibers
\* below it
C34_Witness ==
    /\ Committed
    /\ fibers[currentRoot].alternate # NULL
    /\ \E f \in TreeOf(fibers, currentRoot) :
           /\ IsFunction(fibers[f].type)
           /\ fibers[fibers[f].child].child # NULL

\* ---------------------------------------------------------------------------
\* C35  State is isolated per slot: after a setter of one slot is called and
\* the resulting render commits, the state of every other hook slot that stays
\* mounted is the same as before the call.
\* As claimed this fails for a slot whose own setter was called before and
\* whose updater is still pending: the render applies it.  What holds: a
\* setter call changes no state and only the queue of its own slot, the state
\* of a slot changes only by applying its own pending updaters, and a slot
\* with none pending comes out of the commit as it was before the call.
\* ---------------------------------------------------------------------------
\* a setter call whose render the next work slice carries to the commit
CallThenCommit ==
    /\ last.op = "click"
    /\ last'.op = "workLoop"
    /\ last'.promoted
    /\ currentRoot' = workInProgressRoot

\* the slots other than the called ones that are mounted after the commit
OtherSlots == (DOMAIN hooks \cap SlotsOfTree(currentRoot)') \ Range(last.called)

C35_AsClaimed ==
    [][CallThenCommit => \A g \in OtherSlots : hooks'[g].state = hooks[g].state]_vars

C35_SlotIsolation ==
    [][/\ last'.op = "click" =>
              \A g \in DOMAIN hooks :
                  /\ hooks'[g].state = hooks[g].state
                  /\ g \notin Range(last'.called) => hooks'[g].queue = hooks[g].queue
       /\ \A g \in DOMAIN hooks :
              hooks'[g].state # hooks[g].state =>
                  /\ hooks[g].queue # <<>>
                  /\ hooks'[g].state = DrainQueue(hooks[g].queue, hooks[g].state)
       /\ CallThenCommit =>
              \A g \in OtherSlots :
                  hooks[g].queue = <<>> => hooks'[g].state = hooks[g].state]_vars

\* the commit of a render started by a setter call: the component has two
\* slots, one was set and the other never
C35_Witness ==
    /\ Committed
    /\ fibers[currentRoot].effectTag = "UPDATE"
    /\ \E f \in TreeOf(fibers, currentRoot) :
           /\ Len(fibers[f].hooks) = 2
           /\ \E i, j \in DOMAIN fibers[f].hooks :
                  /\ history[fibers[f].hooks[i]].calls # <<>>
                  /\ hooks[fibers[f].hooks[i]].state # history[fibers[f].hooks[i]].initial
                  /\ history[fibers[f].hooks[j]].calls = <<>>
                  /\ hooks[fibers[f].hooks[j]].state = history[fibers[f].hooks[j]].initial

\* ---------------------------------------------------------------------------
\* C36  At every commit, no fiber reachable from workInProgressRoot through
\* child/sibling links carries the effect tag DELETION, so the commit tree
\* walk itself never removes a host node; removals come only from the
\* deletions list: every removal a commit asks for is of a host node of a
\* fiber on the list, and comes before the first effect of the tree walk.
\* ---------------------------------------------------------------------------
\* the fibers the tree walk of the last commit goes through
WalkedFibers == TreeOf(fibers, last.atCommit.root)

\* the host nodes the deletions list of the last commit stands for
ListedHostNodes ==
    UNION {Range(DeletedHostNodes(last.atCommit.deletions[i])) :
               i \in DOMAIN last.atCommit.deletions}

Removals == LogOps({"removeChild", "removeChild!"})

C36_WalkNeverDeletes ==
    Committing =>
        /\ \A f \in WalkedFibers : fibers[f].effectTag # "DELETION"
        /\ \A i \in Removals :
               /\ last.log[i].node \in ListedHostNodes
               /\ \A j \in DOMAIN last.log \ Removals : i < j

\* a commit that removes a listed node and then walks a tree that places one
C36_Witness ==
    /\ Committed
    /\ last.atCommit.deletions # <<>>
    /\ \E i \in LogOps({"removeChild"}), j \in LogOps({"appendChild"}) : i < j
    /\ Cardinality(WalkedFibers) > 2

====
